---- MODULE Spec2Model ----
(***************************************************************************)
(* A model of dwpy, a DataWeave-like expression language:                  *)
(*   - the recursive-descent expression parser of src/dwpy/parser.py,      *)
(*     as operators over a token list and a 0-based cursor;                *)
(*   - the tree-walking evaluator of src/dwpy/runtime.py, as operators     *)
(*     returning the value (or the raised exception) together with the     *)
(*     ordered log of _evaluate invocations (a history of the walk);       *)
(*   - DataWeaveRuntime.execute as a state machine: parse, one step per    *)
(*     header declaration, then the body.                                  *)
(* Strings are TLA+ strings; a Python None in the AST is PyNone; runtime   *)
(* values are tagged records [t, v]; dicts are sequences of <<key, value>> *)
(* pairs in insertion order.                                               *)
(***************************************************************************)
EXTENDS Integers, Sequences, FiniteSets, TLC

VARIABLES
    pc,             \* which step of the program comes next
    script_source,  \* the script text handed to execute / the expression text
    payload,        \* EvaluationContext.payload
    variables,      \* context.variables of execute: the dict it mutates in place
    script,         \* what parse_script returned or raised
    declIndex,      \* position of `for declaration in script.header.variables`
    outcome,        \* what execute returned or raised
    evalLog,        \* history: the positions _evaluate was invoked on, in order
    built,          \* history: the lambdas the header declared, with what a call
                    \* with no arguments yielded when each was constructed
    parsed,         \* what parse_expression_from_source returned or raised; what
                    \* Tokenizer.tokens returned or raised
    fragments,      \* the operand and operator texts an expression text was put
                    \* together from (<<>> for a script)
    parser          \* a Parser at work: self.tokens, self.index, the calls of its
                    \* methods that have not returned yet, what the last one to
                    \* end did, and (history) how often the cursor was set back

vars == <<pc, script_source, payload, variables, script, declIndex, outcome, evalLog,
          built, parsed, fragments, parser>>

-----------------------------------------------------------------------------
(* Tokens: (kind, text, line, column), parser.py Token.  A None text is "". *)

TokKind(token) == token[1]
TokText(token) == token[2]
TokLine(token) == token[3]
TokCol(token) == token[4]

-----------------------------------------------------------------------------------------------------------------------------------------------------
(* A local name for a value: Bind(value, LAMBDA name : body) is             *)
(* LET name == value IN body, with the value computed once and handed over  *)
(* as an argument.                                                          *)

Bind(value, In(_)) == In(value)

-----
(* AST nodes, parser.py dataclasses.                                        *)

PyNone == [type |-> "None"]

Parameter(name, default) == [name |-> name, default |-> default]
LambdaExpression(parameters, body) ==
    [type |-> "LambdaExpression", parameters |-> parameters, body |-> body]
ObjectLiteral(fields) == [type |-> "ObjectLiteral", fields |-> fields]
Identifier(name) == [type |-> "Identifier", name |-> name]
StringLiteral(value) == [type |-> "StringLiteral", value |-> value]
NumberLiteral(value) == [type |-> "NumberLiteral", value |-> value]
BooleanLiteral(value) == [type |-> "BooleanLiteral", value |-> value]
NullLiteral == [type |-> "NullLiteral"]
ListLiteral(elements) == [type |-> "ListLiteral", elements |-> elements]
PropertyAccess(value, attribute, null_safe) ==
    [type |-> "PropertyAccess", value |-> value, attribute |-> attribute,
     null_safe |-> null_safe]
IndexAccess(value, index) ==
    [type |-> "IndexAccess", value |-> value, index |-> index]
FunctionCall(function, arguments) ==
    [type |-> "FunctionCall", function |-> function, arguments |-> arguments]
DefaultOp(left, right) == [type |-> "DefaultOp", left |-> left, right |-> right]
IfExpression(condition, when_true, when_false) ==
    [type |-> "IfExpression", condition |-> condition, when_true |-> when_true,
     when_false |-> when_false]
MatchPattern(binding, matcher, guard) ==
    [binding |-> binding, matcher |-> matcher, guard |-> guard]
MatchCase(pattern, expression) == [pattern |-> pattern, expression |-> expression]
MatchExpression(value, cases) ==
    [type |-> "MatchExpression", value |-> value, cases |-> cases]

INFIX_SPECIAL(name) ==
    CASE name = "map" -> "_infix_map"
      [] name = "reduce" -> "_infix_reduce"
      [] name = "filter" -> "_infix_filter"
      [] name = "flatMap" -> "_infix_flatMap"
      [] name = "distinctBy" -> "_infix_distinctBy"
      [] name = "to" -> "_infix_to"
      [] OTHER -> name

RESERVED_INFIX_STOP == {"else", "when", "default", "match", "case", "var"}

-----------------------------------------------------------------------------
(* Literal conversions.                                                     *)

DigitValue(c) ==
    CASE c = "0" -> 0 [] c = "1" -> 1 [] c = "2" -> 2 [] c = "3" -> 3
      [] c = "4" -> 4 [] c = "5" -> 5 [] c = "6" -> 6 [] c = "7" -> 7
      [] c = "8" -> 8 [] c = "9" -> 9

RECURSIVE DecimalValue(_, _)
DecimalValue(text, acc) ==
    IF Len(text) = 0 THEN acc
    ELSE DecimalValue(SubSeq(text, 2, Len(text)), 10 * acc + DigitValue(Head(text)))

\* float(value) of a NUMBER lexeme made of digits only (\d+).
float(text) == DecimalValue(text, 0)

\* value[1:-1]: the quotes are dropped (lexemes here hold no backslash).
_unescape_string(value) == SubSeq(value, 2, Len(value) - 1)

-----------------------------------------------------------------------------
(* Text helpers: Python str operations on 0-based positions.                *)

CharAt(source, pos) ==
    IF pos < Len(source) THEN SubSeq(source, pos + 1, pos + 1) ELSE ""

\* source.startswith(prefix, pos)
startswith(source, prefix, pos) ==
    /\ pos + Len(prefix) <= Len(source)
    /\ SubSeq(source, pos + 1, pos + Len(prefix)) = prefix

\* source.find(sub, start): the first position >= start, or -1.
find(source, sub, start) ==
    LET hits == {i \in start..(Len(source) - Len(sub)) : startswith(source, sub, i)}
    IN IF hits = {} THEN -1 ELSE CHOOSE i \in hits : \A j \in hits : i <= j

\* source[from : to]
Slice(source, from, to) == SubSeq(source, from + 1, to)

Whitespace == {" ", "\t", "\n", "\r", "\f"}
Digits == {"0", "1", "2", "3", "4", "5", "6", "7", "8", "9"}
Letters ==
    {"a", "b", "c", "d", "e", "f", "g", "h", "i", "j", "k", "l", "m", "n", "o", "p",
     "q", "r", "s", "t", "u", "v", "w", "x", "y", "z", "A", "B", "C", "D", "E", "F",
     "G", "H", "I", "J", "K", "L", "M", "N", "O", "P", "Q", "R", "S", "T", "U", "V",
     "W", "X", "Y", "Z", "_"}

\* The end of the longest run of characters of `class` from pos (pos if none).
RunEnd(source, pos, class) ==
    LET stops == {i \in pos..Len(source) : CharAt(source, i) \notin class}
    IN IF stops = {} THEN pos ELSE CHOOSE i \in stops : \A j \in stops : i <= j

\* The end of the longest run of characters not of `class` from pos.
RunEndNot(source, pos, class) ==
    LET stops == {i \in pos..Len(source) : i = Len(source) \/ CharAt(source, i) \in class}
    IN IF stops = {} THEN pos ELSE CHOOSE i \in stops : \A j \in stops : i <= j

-----------------------------------------------------------------------------
(* TOKEN_REGEX: each alternative gives the end of its match at pos, or -1;  *)
(* the alternatives are tried in the order the pattern lists them.          *)

match_WHITESPACE(source, pos) ==
    LET end == RunEnd(source, pos, Whitespace) IN IF end > pos THEN end ELSE -1

match_NUMBER(source, pos) ==
    LET int_end == RunEnd(source, pos, Digits)
        frac_end == IF CharAt(source, int_end) = "."
                    THEN RunEnd(source, int_end + 1, Digits) ELSE int_end
    IN IF int_end = pos THEN -1
       ELSE IF frac_end > int_end + 1 THEN frac_end ELSE int_end

\* ([^q\\]|\\.)* then the closing quote q, scanning from pos.
RECURSIVE StringBodyEnd(_, _, _)
StringBodyEnd(source, pos, quote) ==
    LET c == CharAt(source, pos)
    IN IF c = "" THEN -1
       ELSE IF c = quote THEN pos + 1
       ELSE IF c = "\\"
            THEN IF CharAt(source, pos + 1) \in {"", "\n"} THEN -1
                 ELSE StringBodyEnd(source, pos + 2, quote)
       ELSE StringBodyEnd(source, pos + 1, quote)

match_STRING(source, pos) ==
    IF CharAt(source, pos) = "\"" THEN StringBodyEnd(source, pos + 1, "\"")
    ELSE IF CharAt(source, pos) = "'" THEN StringBodyEnd(source, pos + 1, "'")
    ELSE -1

match_IDENT(source, pos) ==
    IF CharAt(source, pos) \in Letters
    THEN RunEnd(source, pos + 1, Letters \cup Digits) ELSE -1

\* The fixed lexemes, in pattern order, between STRING and IDENT.
FixedLexemes ==
    << <<"DIFF", "--">>, <<"SAFE_DOT", "?.">>, <<"CONCAT", "++">>, <<"GTE", ">=">>,
       <<"LTE", "<=">>, <<"EQ", "==">>, <<"NEQ", "!=">>, <<"ARROW", "->">>,
       <<"GT", ">">>, <<"LT", "<">>, <<"LBRACE", "{">>, <<"RBRACE", "}">>,
       <<"LBRACKET", "[">>, <<"RBRACKET", "]">>, <<"LPAREN", "(">>, <<"RPAREN", ")">>,
       <<"COLON", ":">>, <<"COMMA", ",">>, <<"DOT", ".">>, <<"PLUS", "+">>,
       <<"STAR", "*">>, <<"EQUAL", "=">> >>

RECURSIVE match_fixed(_, _, _)
match_fixed(source, pos, k) ==
    IF k > Len(FixedLexemes) THEN [kind |-> "", end |-> -1]
    ELSE IF startswith(source, FixedLexemes[k][2], pos)
         THEN [kind |-> FixedLexemes[k][1], end |-> pos + Len(FixedLexemes[k][2])]
         ELSE match_fixed(source, pos, k + 1)

\* TOKEN_REGEX.match(source, pos): lastgroup and match.end(), end = -1 for no match.
TOKEN_REGEX_match(source, pos) ==
    IF match_WHITESPACE(source, pos) # -1
    THEN [kind |-> "WHITESPACE", end |-> match_WHITESPACE(source, pos)]
    ELSE IF match_NUMBER(source, pos) # -1
    THEN [kind |-> "NUMBER", end |-> match_NUMBER(source, pos)]
    ELSE IF match_STRING(source, pos) # -1
    THEN [kind |-> "STRING", end |-> match_STRING(source, pos)]
    ELSE IF match_fixed(source, pos, 1).end # -1 THEN match_fixed(source, pos, 1)
    ELSE [kind |-> "IDENT", end |-> match_IDENT(source, pos)]

-----------------------------------------------------------------------------
(* Tokenizer, parser.py class Tokenizer.                                    *)

\* _advance leaving the column alone at a newline.
RECURSIVE _advance_no_reset(_, _, _)
_advance_no_reset(text, line, column) ==
    IF Len(text) = 0 THEN [line |-> line, column |-> column]
    ELSE IF Head(text) = "\n" THEN _advance_no_reset(SubSeq(text, 2, Len(text)), line + 1, column)
    ELSE _advance_no_reset(SubSeq(text, 2, Len(text)), line, column + 1)

\* Tokenizer._advance: the (line, column) counters after `text`.
RECURSIVE _advance(_, _, _)
_advance(text, line, column) ==
    IF Len(text) = 0 THEN [line |-> line, column |-> column]
    ELSE IF Head(text) = "\n" THEN _advance(SubSeq(text, 2, Len(text)), line + 1, 1)
    ELSE _advance(SubSeq(text, 2, Len(text)), line, column + 1)

LexErrorAt(msg, line, column) ==
    [kind |-> "ParseError", msg |-> msg, positioned |-> TRUE,
     line |-> line, column |-> column]

\* The token appended for a match of `kind` with lexeme `text`.
classify(kind, text, start_line, start_column) ==
    IF kind = "IDENT" /\ text = "default" THEN <<"DEFAULT", "", start_line, start_column>>
    ELSE IF kind = "IDENT" /\ text \in {"true", "false"}
    THEN <<"BOOLEAN", text, start_line, start_column>>
    ELSE IF kind = "IDENT" /\ text = "null" THEN <<"NULL", "", start_line, start_column>>
    ELSE <<kind, text, start_line, start_column>>

\* One iteration of the while loop of Tokenizer.tokens on the loop state st
\* (position, line, column, tokens so far); the state after the loop has the EOF
\* token appended, and a raised ParseError ends the loop with ok = FALSE.
tokens_step(source, st) ==
    IF st.done THEN st
    ELSE IF st.pos >= Len(source)
    THEN [st EXCEPT !.done = TRUE,
                    !.tokens = Append(st.tokens, <<"EOF", "", st.line, st.column>>)]
    ELSE IF startswith(source, "//", st.pos)
    THEN LET comment_end == find(source, "\n", st.pos)
             stop == IF comment_end = -1 THEN Len(source) ELSE comment_end
             after == _advance(Slice(source, st.pos, stop), st.line, st.column)
         IN [st EXCEPT !.pos = stop, !.line = after.line, !.column = after.column]
    ELSE IF startswith(source, "/*", st.pos)
    THEN LET end_index == find(source, "*/", st.pos + 2)
             after == _advance(Slice(source, st.pos, end_index + 2), st.line, st.column)
         IN IF end_index = -1
            THEN [st EXCEPT !.done = TRUE, !.ok = FALSE,
                            !.err = LexErrorAt("Unterminated block comment",
                                               st.line, st.column)]
            ELSE [st EXCEPT !.pos = end_index + 2, !.line = after.line,
                            !.column = after.column]
    ELSE Bind(TOKEN_REGEX_match(source, st.pos), LAMBDA m :
             Bind(Slice(source, st.pos, m.end), LAMBDA text :
             Bind(_advance(text, st.line, st.column), LAMBDA after :
            IF m.end = -1
            THEN [st EXCEPT !.done = TRUE, !.ok = FALSE,
                            !.err = LexErrorAt("Unexpected token", st.line, st.column)]
            ELSE IF m.kind = "WHITESPACE"
            THEN [st EXCEPT !.pos = m.end, !.line = after.line, !.column = after.column]
            ELSE [st EXCEPT !.pos = m.end, !.line = after.line, !.column = after.column,
                            !.tokens = Append(st.tokens,
                                              classify(m.kind, text, st.line, st.column))])))

\* At most n iterations of the while loop from st, run as two halves.
RECURSIVE tokens_loop(_, _, _)
tokens_loop(source, st, n) ==
    IF st.done \/ n = 0 THEN st
    ELSE IF n = 1 THEN tokens_step(source, st)
    ELSE tokens_loop(source, tokens_loop(source, st, n \div 2), n - n \div 2)

\* Tokenizer(source).tokens()
\* Every iteration but the last consumes at least one character.
Tokenizer_tokens(source) ==
    tokens_loop(source,
                [pos |-> 0, line |-> 1, column |-> 1, tokens |-> <<>>, ok |-> TRUE,
                 done |-> FALSE,
                 err |-> [kind |-> "None", msg |-> "", positioned |-> FALSE,
                          line |-> 0, column |-> 0]],
                Len(source) + 1)

-----------------------------------------------------------------------------
(* Parser results: a returned node with the cursor after it, or a raised    *)
(* ParseError with the cursor where it was raised.                          *)

NoError == [kind |-> "None", msg |-> "", positioned |-> FALSE, line |-> 0, column |-> 0]
ParseErrorAt(msg, token) ==
    [kind |-> "ParseError", msg |-> msg, positioned |-> TRUE,
     line |-> TokLine(token), column |-> TokCol(token)]
ParseErrorPlain(msg) ==
    [kind |-> "ParseError", msg |-> msg, positioned |-> FALSE, line |-> 0, column |-> 0]

Ok(expr, index) == [ok |-> TRUE, expr |-> expr, index |-> index, err |-> NoError]
Raise(err, index) == [ok |-> FALSE, expr |-> PyNone, index |-> index, err |-> err]

current(toks, index) == toks[index + 1]

advance(toks, index) ==
    IF TokKind(current(toks, index)) # "EOF" THEN index + 1 ELSE index

expect(toks, index, kind) ==
    LET token == current(toks, index)
    IN IF TokKind(token) # kind
       THEN Raise(ParseErrorAt("Expected " \o kind \o " but found " \o TokKind(token), token),
                  index)
       ELSE Ok(token, advance(toks, index))

\* match: the cursor afterwards and whether the kind was consumed.
match(toks, index, kind) ==
    IF TokKind(current(toks, index)) = kind
    THEN [matched |-> TRUE, index |-> advance(toks, index)]
    ELSE [matched |-> FALSE, index |-> index]

-----------------------------------------------------------------------------
(* The expression parser, parser.py class Parser.  Every method takes the   *)
(* token list and the cursor and returns Ok(node, cursor) or Raise(error).  *)

RECURSIVE parse_expression(_, _)
RECURSIVE parse_postfix(_, _)
RECURSIVE parse_postfix_no_infix(_, _)
RECURSIVE parse_primary(_, _)
RECURSIVE parse_call(_, _, _)
RECURSIVE parse_match_expression(_, _, _)

\* parse_expression_eof without the check for remaining tokens.
parse_expression_eof_unchecked(toks) ==
    parse_expression(toks, 0)

parse_expression_eof(toks) ==
    Bind(parse_expression(toks, 0), LAMBDA r :
       IF ~r.ok THEN r
       ELSE IF TokKind(current(toks, r.index)) # "EOF"
            THEN Raise(ParseErrorAt("Unexpected tokens after expression",
                                    current(toks, r.index)), r.index)
            ELSE r)

\* parse_multiplicative's loop with the right operand of `*` parsed as a whole
\* expression, so that `*` takes in the lower-precedence operators after it.
RECURSIVE parse_multiplicative_loop_greedy(_, _, _)
parse_multiplicative_loop_greedy(toks, index, expr) ==
    IF TokKind(current(toks, index)) = "STAR"
    THEN Bind(parse_expression(toks, advance(toks, index)), LAMBDA right :
            IF ~right.ok THEN right
            ELSE parse_multiplicative_loop_greedy(toks, right.index,
                     FunctionCall(Identifier("_binary_times"), <<expr, right.expr>>)))
    ELSE Ok(expr, index)

RECURSIVE parse_multiplicative_loop(_, _, _)
parse_multiplicative_loop(toks, index, expr) ==
    IF TokKind(current(toks, index)) = "STAR"
    THEN Bind(parse_postfix(toks, advance(toks, index)), LAMBDA right :
            IF ~right.ok THEN right
            ELSE parse_multiplicative_loop(toks, right.index,
                     FunctionCall(Identifier("_binary_times"), <<expr, right.expr>>)))
    ELSE Ok(expr, index)

parse_multiplicative(toks, index) ==
    Bind(parse_postfix(toks, index), LAMBDA first :
       IF ~first.ok THEN first
       ELSE parse_multiplicative_loop(toks, first.index, first.expr))

additive_name(token_type) ==
    CASE token_type = "PLUS" -> "_binary_plus"
      [] token_type = "CONCAT" -> "_binary_concat"
      [] token_type = "DIFF" -> "_binary_diff"

RECURSIVE parse_additive_loop(_, _, _)
parse_additive_loop(toks, index, expr) ==
    IF TokKind(current(toks, index)) \in {"PLUS", "CONCAT", "DIFF"}
    THEN Bind(parse_multiplicative(toks, advance(toks, index)), LAMBDA right :
            IF ~right.ok THEN right
            ELSE parse_additive_loop(toks, right.index,
                     FunctionCall(Identifier(additive_name(TokKind(current(toks, index)))),
                                  <<expr, right.expr>>)))
    ELSE Ok(expr, index)

parse_additive(toks, index) ==
    Bind(parse_multiplicative(toks, index), LAMBDA first :
       IF ~first.ok THEN first
       ELSE parse_additive_loop(toks, first.index, first.expr))

operator_map(token_type) ==
    CASE token_type = "EQ" -> "_binary_eq"
      [] token_type = "NEQ" -> "_binary_neq"
      [] token_type = "GT" -> "_binary_gt"
      [] token_type = "LT" -> "_binary_lt"
      [] token_type = "GTE" -> "_binary_gte"
      [] token_type = "LTE" -> "_binary_lte"

RECURSIVE parse_comparison_loop(_, _, _)
parse_comparison_loop(toks, index, expr) ==
    IF TokKind(current(toks, index)) \in {"EQ", "NEQ", "GT", "LT", "GTE", "LTE"}
    THEN Bind(parse_additive(toks, advance(toks, index)), LAMBDA right :
            IF ~right.ok THEN right
            ELSE parse_comparison_loop(toks, right.index,
                     FunctionCall(Identifier(operator_map(TokKind(current(toks, index)))),
                                  <<expr, right.expr>>)))
    ELSE Ok(expr, index)

parse_comparison(toks, index) ==
    Bind(parse_additive(toks, index), LAMBDA first :
       IF ~first.ok THEN first
       ELSE parse_comparison_loop(toks, first.index, first.expr))

RECURSIVE parse_default_loop(_, _, _)
parse_default_loop(toks, index, expr) ==
    Bind(match(toks, index, "DEFAULT"), LAMBDA m :
       IF m.matched
       THEN Bind(parse_comparison(toks, m.index), LAMBDA right :
               IF ~right.ok THEN right
               ELSE parse_default_loop(toks, right.index, DefaultOp(expr, right.expr)))
       ELSE Ok(expr, index))

\* parse_default with the right operand of `default` parsed as a whole
\* expression, which nests a chain of defaults to the right.
parse_default_nests_right(toks, index) ==
    Bind(parse_comparison(toks, index), LAMBDA first :
       IF ~first.ok THEN first
       ELSE Bind(match(toks, first.index, "DEFAULT"), LAMBDA d :
                Bind(parse_expression(toks, d.index), LAMBDA right :
               IF ~d.matched THEN first
               ELSE IF ~right.ok THEN right
               ELSE Ok(DefaultOp(first.expr, right.expr), right.index))))

parse_default(toks, index) ==
    Bind(parse_comparison(toks, index), LAMBDA first :
       IF ~first.ok THEN first
       ELSE parse_default_loop(toks, first.index, first.expr))

parse_if_expression(toks, index) ==
    LET token == current(toks, index)
    IN IF TokKind(token) = "IDENT" /\ TokText(token) = "if"
       THEN Bind(expect(toks, advance(toks, index), "LPAREN"), LAMBDA lp :
               IF ~lp.ok THEN lp ELSE
               Bind(parse_expression(toks, lp.index), LAMBDA condition :
                  IF ~condition.ok THEN condition ELSE
                  Bind(expect(toks, condition.index, "RPAREN"), LAMBDA rp :
                     IF ~rp.ok THEN rp ELSE
                     Bind(parse_expression(toks, rp.index), LAMBDA when_true :
                        IF ~when_true.ok THEN when_true ELSE
                        LET else_token == current(toks, when_true.index)
                        IN IF TokKind(else_token) # "IDENT" \/ TokText(else_token) # "else"
                           THEN Raise(ParseErrorAt("Expected else branch in if expression",
                                                   else_token), when_true.index)
                           ELSE Bind(
                                        parse_expression(toks, advance(toks, when_true.index)), LAMBDA when_false :
                                   IF ~when_false.ok THEN when_false
                                   ELSE Ok(IfExpression(condition.expr, when_true.expr,
                                                        when_false.expr), when_false.index))))))
       ELSE parse_default(toks, index)

parse_expression(toks, index) == parse_if_expression(toks, index)

\* parse_infix_argument without the special case of `to`: every infix
\* operator takes a full postfix chain as its right operand.
parse_infix_argument_always_postfix(toks, index, operator_name) ==
    parse_postfix(toks, index)

\* parse_infix_argument with the special case of `to` made the rule: no infix
\* operator takes a following infix call into its right operand.
parse_infix_argument_never_infix(toks, index, operator_name) ==
    parse_postfix_no_infix(toks, index)

\* The right operand of an infix identifier: `to` takes a postfix chain
\* without infix calls, every other operator a full postfix chain.
parse_infix_argument(toks, index, operator_name) ==
    IF operator_name = "to"
    THEN parse_postfix_no_infix(toks, index)
    ELSE parse_postfix(toks, index)

RECURSIVE parse_postfix_loop(_, _, _)
parse_postfix_loop(toks, index, expr) ==
    LET token == current(toks, index)
        token_type == TokKind(token)
        token_value == TokText(token)
    IN CASE token_type = "DOT" ->
              Bind(expect(toks, advance(toks, index), "IDENT"), LAMBDA attr_token :
                 IF ~attr_token.ok THEN attr_token
                 ELSE parse_postfix_loop(toks, attr_token.index,
                          PropertyAccess(expr, TokText(attr_token.expr), FALSE)))
         [] token_type = "SAFE_DOT" ->
              Bind(expect(toks, advance(toks, index), "IDENT"), LAMBDA attr_token :
                 IF ~attr_token.ok THEN attr_token
                 ELSE parse_postfix_loop(toks, attr_token.index,
                          PropertyAccess(expr, TokText(attr_token.expr), TRUE)))
         [] token_type = "LPAREN" ->
              Bind(parse_call(toks, index, expr), LAMBDA call :
                 IF ~call.ok THEN call
                 ELSE parse_postfix_loop(toks, call.index, call.expr))
         [] token_type = "IDENT" /\ token_value \notin RESERVED_INFIX_STOP ->
              Bind(parse_infix_argument(toks, advance(toks, index), token_value), LAMBDA argument :
                 IF ~argument.ok THEN argument
                 ELSE parse_postfix_loop(toks, argument.index,
                          FunctionCall(Identifier(INFIX_SPECIAL(token_value)),
                                       <<expr, argument.expr>>)))
         [] token_type = "LBRACKET" ->
              Bind(parse_expression(toks, advance(toks, index)), LAMBDA index_expr :
                 IF ~index_expr.ok THEN index_expr ELSE
                 Bind(expect(toks, index_expr.index, "RBRACKET"), LAMBDA rb :
                    IF ~rb.ok THEN rb
                    ELSE parse_postfix_loop(toks, rb.index,
                             IndexAccess(expr, index_expr.expr))))
         [] token_type = "IDENT" /\ token_value = "match" ->
              Bind(parse_match_expression(toks, advance(toks, index), expr), LAMBDA m :
                 IF ~m.ok THEN m
                 ELSE parse_postfix_loop(toks, m.index, m.expr))
         [] OTHER -> Ok(expr, index)

parse_postfix(toks, index) ==
    Bind(parse_primary(toks, index), LAMBDA first :
       IF ~first.ok THEN first
       ELSE parse_postfix_loop(toks, first.index, first.expr))

RECURSIVE parse_postfix_no_infix_loop(_, _, _)
parse_postfix_no_infix_loop(toks, index, expr) ==
    LET token_type == TokKind(current(toks, index))
    IN CASE token_type = "DOT" ->
              Bind(expect(toks, advance(toks, index), "IDENT"), LAMBDA attr_token :
                 IF ~attr_token.ok THEN attr_token
                 ELSE parse_postfix_no_infix_loop(toks, attr_token.index,
                          PropertyAccess(expr, TokText(attr_token.expr), FALSE)))
         [] token_type = "SAFE_DOT" ->
              Bind(expect(toks, advance(toks, index), "IDENT"), LAMBDA attr_token :
                 IF ~attr_token.ok THEN attr_token
                 ELSE parse_postfix_no_infix_loop(toks, attr_token.index,
                          PropertyAccess(expr, TokText(attr_token.expr), TRUE)))
         [] token_type = "LPAREN" ->
              Bind(parse_call(toks, index, expr), LAMBDA call :
                 IF ~call.ok THEN call
                 ELSE parse_postfix_no_infix_loop(toks, call.index, call.expr))
         [] token_type = "LBRACKET" ->
              Bind(parse_expression(toks, advance(toks, index)), LAMBDA index_expr :
                 IF ~index_expr.ok THEN index_expr ELSE
                 Bind(expect(toks, index_expr.index, "RBRACKET"), LAMBDA rb :
                    IF ~rb.ok THEN rb
                    ELSE parse_postfix_no_infix_loop(toks, rb.index,
                             IndexAccess(expr, index_expr.expr))))
         [] OTHER -> Ok(expr, index)

parse_postfix_no_infix(toks, index) ==
    Bind(parse_primary(toks, index), LAMBDA first :
       IF ~first.ok THEN first
       ELSE parse_postfix_no_infix_loop(toks, first.index, first.expr))

RECURSIVE parse_call_loop(_, _, _)
parse_call_loop(toks, index, args) ==
    Bind(parse_expression(toks, index), LAMBDA argument :
       IF ~argument.ok THEN argument ELSE
       Bind(match(toks, argument.index, "RPAREN"), LAMBDA m :
          IF m.matched THEN Ok(Append(args, argument.expr), m.index)
          ELSE Bind(expect(toks, argument.index, "COMMA"), LAMBDA comma :
                  IF ~comma.ok THEN comma
                  ELSE parse_call_loop(toks, comma.index, Append(args, argument.expr)))))

parse_call(toks, index, function_expr) ==
    Bind(expect(toks, index, "LPAREN"), LAMBDA lp :
       IF ~lp.ok THEN lp ELSE
       Bind(match(toks, lp.index, "RPAREN"), LAMBDA m :
          IF m.matched THEN Ok(FunctionCall(function_expr, <<>>), m.index)
          ELSE Bind(parse_call_loop(toks, lp.index, <<>>), LAMBDA args :
                  IF ~args.ok THEN args
                  ELSE Ok(FunctionCall(function_expr, args.expr), args.index))))

RECURSIVE _parse_match_pattern(_, _)
_parse_match_pattern(toks, index) ==
    Bind(current(toks, index), LAMBDA token :
        Bind(IF TokKind(token) = "IDENT" /\ TokText(token) = "var"
                THEN Bind(expect(toks, advance(toks, index), "IDENT"), LAMBDA name_token :
                        IF ~name_token.ok THEN name_token
                        ELSE Ok(MatchPattern(TokText(name_token.expr), PyNone, PyNone),
                                name_token.index))
                ELSE Bind(parse_expression(toks, index), LAMBDA matcher :
                        IF ~matcher.ok THEN matcher
                        ELSE Ok(MatchPattern("", matcher.expr, PyNone), matcher.index)), LAMBDA head :
       IF ~head.ok THEN head
       ELSE IF TokKind(current(toks, head.index)) = "IDENT"
               /\ TokText(current(toks, head.index)) = "when"
            THEN Bind(parse_expression(toks, advance(toks, head.index)), LAMBDA guard :
                    IF ~guard.ok THEN guard
                    ELSE Ok(MatchPattern(head.expr.binding, head.expr.matcher, guard.expr),
                            guard.index))
            ELSE head))

RECURSIVE parse_match_expression_loop(_, _, _)
parse_match_expression_loop(toks, index, cases) ==
    Bind(match(toks, index, "RBRACE"), LAMBDA closing :
        Bind(current(toks, index), LAMBDA token :
       IF closing.matched THEN Ok(cases, closing.index)
       ELSE IF TokKind(token) = "IDENT" /\ TokText(token) = "case"
       THEN Bind(_parse_match_pattern(toks, advance(toks, index)), LAMBDA pattern :
               IF ~pattern.ok THEN pattern ELSE
               Bind(expect(toks, pattern.index, "ARROW"), LAMBDA arrow :
                  IF ~arrow.ok THEN arrow ELSE
                  Bind(parse_expression(toks, arrow.index), LAMBDA result_expr :
                     IF ~result_expr.ok THEN result_expr
                     ELSE parse_match_expression_loop(toks,
                              match(toks, result_expr.index, "COMMA").index,
                              Append(cases, MatchCase(pattern.expr, result_expr.expr))))))
       ELSE IF TokKind(token) = "IDENT" /\ TokText(token) = "else"
       THEN Bind(expect(toks, advance(toks, index), "ARROW"), LAMBDA arrow :
               IF ~arrow.ok THEN arrow ELSE
               Bind(parse_expression(toks, arrow.index), LAMBDA result_expr :
                  IF ~result_expr.ok THEN result_expr
                  ELSE parse_match_expression_loop(toks,
                           match(toks, result_expr.index, "COMMA").index,
                           Append(cases, MatchCase(PyNone, result_expr.expr)))))
       ELSE Raise(ParseErrorAt("Expected 'case' or 'else' in match expression", token),
                  index)))

parse_match_expression(toks, index, value_expr) ==
    Bind(expect(toks, index, "LBRACE"), LAMBDA lb :
       IF ~lb.ok THEN lb ELSE
       Bind(parse_match_expression_loop(toks, lb.index, <<>>), LAMBDA cases :
          IF ~cases.ok THEN cases
          ELSE IF cases.expr = <<>>
               THEN Raise(ParseErrorPlain("Match expression must contain at least one case"),
                          cases.index)
               ELSE Ok(MatchExpression(value_expr, cases.expr), cases.index)))

RECURSIVE _parse_lambda_expression_simple_loop(_, _, _)
_parse_lambda_expression_simple_loop(toks, index, parameters) ==
    Bind(expect(toks, index, "IDENT"), LAMBDA name_token :
       IF ~name_token.ok THEN name_token ELSE
       Bind(match(toks, name_token.index, "EQUAL"), LAMBDA eq :
           Bind(IF eq.matched THEN parse_expression(toks, eq.index)
                           ELSE Ok(PyNone, eq.index), LAMBDA default_expr :
          IF ~default_expr.ok THEN default_expr ELSE
          Bind(Append(parameters,
                              Parameter(TokText(name_token.expr), default_expr.expr)), LAMBDA added :
              Bind(match(toks, default_expr.index, "COMMA"), LAMBDA comma :
             IF comma.matched
             THEN _parse_lambda_expression_simple_loop(toks, comma.index, added)
             ELSE Bind(expect(toks, default_expr.index, "RPAREN"), LAMBDA rp :
                     IF ~rp.ok THEN rp ELSE Ok(added, rp.index)))))))

_parse_lambda_expression_simple(toks, index) ==
    Bind(expect(toks, index, "LPAREN"), LAMBDA lp :
       IF ~lp.ok THEN lp ELSE
       Bind(match(toks, lp.index, "RPAREN"), LAMBDA empty :
           Bind(IF empty.matched THEN Ok(<<>>, empty.index)
                         ELSE _parse_lambda_expression_simple_loop(toks, lp.index, <<>>), LAMBDA parameters :
          IF ~parameters.ok THEN parameters ELSE
          Bind(expect(toks, parameters.index, "ARROW"), LAMBDA arrow :
             IF ~arrow.ok THEN arrow ELSE
             Bind(parse_expression(toks, arrow.index), LAMBDA body :
                IF ~body.ok THEN body
                ELSE Ok(LambdaExpression(parameters.expr, body.expr), body.index))))))

RECURSIVE _parse_parameter_list_loop(_, _, _)
_parse_parameter_list_loop(toks, index, parameters) ==
    Bind(expect(toks, index, "IDENT"), LAMBDA name_token :
       IF ~name_token.ok THEN name_token ELSE
       Bind(match(toks, name_token.index, "EQUAL"), LAMBDA eq :
           Bind(IF eq.matched THEN parse_expression(toks, eq.index)
                           ELSE Ok(PyNone, eq.index), LAMBDA default_expr :
          IF ~default_expr.ok THEN default_expr ELSE
          Bind(Append(parameters,
                              Parameter(TokText(name_token.expr), default_expr.expr)), LAMBDA added :
              Bind(match(toks, default_expr.index, "COMMA"), LAMBDA comma :
             IF comma.matched
             THEN _parse_parameter_list_loop(toks, comma.index, added)
             ELSE Bind(expect(toks, default_expr.index, "RPAREN"), LAMBDA rp :
                     IF ~rp.ok THEN rp ELSE Ok(added, rp.index)))))))

_parse_parameter_list(toks, index) ==
    Bind(expect(toks, index, "LPAREN"), LAMBDA lp :
       IF ~lp.ok THEN lp ELSE
       Bind(match(toks, lp.index, "RPAREN"), LAMBDA empty :
          IF empty.matched THEN Ok(<<>>, empty.index)
          ELSE _parse_parameter_list_loop(toks, lp.index, <<>>)))

_parse_lambda_expression_legacy(toks, index) ==
    Bind(expect(toks, index, "LPAREN"), LAMBDA lp :
       IF ~lp.ok THEN lp ELSE
       Bind(_parse_parameter_list(toks, lp.index), LAMBDA params :
          IF ~params.ok THEN params ELSE
          Bind(expect(toks, params.index, "ARROW"), LAMBDA arrow :
             IF ~arrow.ok THEN arrow ELSE
             Bind(parse_expression(toks, arrow.index), LAMBDA body :
                IF ~body.ok THEN body ELSE
                Bind(expect(toks, body.index, "RPAREN"), LAMBDA rp :
                   IF ~rp.ok THEN rp
                   ELSE Ok(LambdaExpression(params.expr, body.expr), rp.index))))))

\* Ok(PyNone, saved_index) is `return None` after both rollbacks.
_maybe_parse_lambda_expression(toks, index) ==
    Bind(index, LAMBDA saved_index :
        Bind(_parse_lambda_expression_simple(toks, saved_index), LAMBDA simple :
       IF simple.ok THEN simple
       ELSE Bind(_parse_lambda_expression_legacy(toks, saved_index), LAMBDA legacy :
               IF legacy.ok THEN legacy ELSE Ok(PyNone, saved_index))))

RECURSIVE parse_object_loop(_, _, _)
parse_object_loop(toks, index, fields) ==
    Bind(current(toks, index), LAMBDA key_token :
        Bind(IF TokKind(key_token) = "STRING"
               THEN Ok(_unescape_string(TokText(key_token)), advance(toks, index))
               ELSE Bind(expect(toks, index, "IDENT"), LAMBDA ident :
                       IF ~ident.ok THEN ident ELSE Ok(TokText(ident.expr), ident.index)), LAMBDA key :
       IF ~key.ok THEN key ELSE
       Bind(expect(toks, key.index, "COLON"), LAMBDA colon :
          IF ~colon.ok THEN colon ELSE
          Bind(parse_expression(toks, colon.index), LAMBDA value :
             IF ~value.ok THEN value ELSE
             Bind(Append(fields, <<key.expr, value.expr>>), LAMBDA added :
                 Bind(match(toks, value.index, "RBRACE"), LAMBDA closing :
                IF closing.matched THEN Ok(added, closing.index)
                ELSE Bind(expect(toks, value.index, "COMMA"), LAMBDA comma :
                        IF ~comma.ok THEN comma
                        ELSE parse_object_loop(toks, comma.index, added))))))))

parse_object(toks, index) ==
    Bind(expect(toks, index, "LBRACE"), LAMBDA lb :
       IF ~lb.ok THEN lb ELSE
       Bind(match(toks, lb.index, "RBRACE"), LAMBDA empty :
          IF empty.matched THEN Ok(ObjectLiteral(<<>>), empty.index)
          ELSE Bind(parse_object_loop(toks, lb.index, <<>>), LAMBDA fields :
                  IF ~fields.ok THEN fields
                  ELSE Ok(ObjectLiteral(fields.expr), fields.index))))

RECURSIVE parse_list_loop(_, _, _)
parse_list_loop(toks, index, elements) ==
    Bind(parse_expression(toks, index), LAMBDA element :
       IF ~element.ok THEN element ELSE
       Bind(match(toks, element.index, "RBRACKET"), LAMBDA closing :
          IF closing.matched THEN Ok(Append(elements, element.expr), closing.index)
          ELSE Bind(expect(toks, element.index, "COMMA"), LAMBDA comma :
                  IF ~comma.ok THEN comma
                  ELSE parse_list_loop(toks, comma.index, Append(elements, element.expr)))))

parse_list(toks, index) ==
    Bind(expect(toks, index, "LBRACKET"), LAMBDA lb :
       IF ~lb.ok THEN lb ELSE
       Bind(match(toks, lb.index, "RBRACKET"), LAMBDA empty :
          IF empty.matched THEN Ok(ListLiteral(<<>>), empty.index)
          ELSE Bind(parse_list_loop(toks, lb.index, <<>>), LAMBDA elements :
                  IF ~elements.ok THEN elements
                  ELSE Ok(ListLiteral(elements.expr), elements.index))))

parse_primary(toks, index) ==
    LET token == current(toks, index)
        token_type == TokKind(token)
        value == TokText(token)
    IN CASE token_type = "LBRACE" -> parse_object(toks, index)
         [] token_type = "LBRACKET" -> parse_list(toks, index)
         [] token_type = "STRING" ->
              Ok(StringLiteral(_unescape_string(value)), advance(toks, index))
         [] token_type = "NUMBER" -> Ok(NumberLiteral(float(value)), advance(toks, index))
         [] token_type = "BOOLEAN" ->
              Ok(BooleanLiteral(value = "true"), advance(toks, index))
         [] token_type = "NULL" -> Ok(NullLiteral, advance(toks, index))
         [] token_type = "IDENT" -> Ok(Identifier(value), advance(toks, index))
         [] token_type = "LPAREN" ->
              Bind(_maybe_parse_lambda_expression(toks, index), LAMBDA lambda_expr :
                 IF lambda_expr.expr # PyNone THEN lambda_expr
                 ELSE Bind(parse_expression(toks, advance(toks, index)), LAMBDA expr :
                         IF ~expr.ok THEN expr ELSE
                         Bind(expect(toks, expr.index, "RPAREN"), LAMBDA rp :
                            IF ~rp.ok THEN rp ELSE Ok(expr.expr, rp.index))))
         [] OTHER -> Raise(ParseErrorAt("Unexpected token " \o token_type, token), index)

\* parse_expression_from_source: tokenize, then parse to end of input.
parse_expression_from_source(source) ==
    Bind(Tokenizer_tokens(source), LAMBDA lexed :
       IF ~lexed.ok THEN Raise(lexed.err, 0)
       ELSE parse_expression_eof(lexed.tokens))

-----------------------------------------------------------------------------
(* Runtime values: [t, v] with t the Python type.  A dict is a sequence of  *)
(* <<key, value>> pairs in insertion order.  VLive is a reference to the    *)
(* one dict that is mutated after it can be aliased: the variables dict of  *)
(* execute's context, which the identifier `vars` returns itself.  Its      *)
(* contents at the time of an operation are the `heap` of the context.      *)

VNull == [t |-> "null", v |-> 0]
VBool(b) == [t |-> "bool", v |-> b]
VInt(n) == [t |-> "int", v |-> n]
VStr(s) == [t |-> "str", v |-> s]
VList(items) == [t |-> "list", v |-> items]
VDict(pairs) == [t |-> "dict", v |-> pairs]
VBuiltin(name) == [t |-> "builtin", v |-> name]
VLive == [t |-> "live", v |-> 0]

\* LambdaCallable; site is the position in the program of the
\* LambdaExpression that built it (the identity of its body and defaults).
LambdaCallable(parameters, body, closure_variables, lambda_payload, site) ==
    [t |-> "lambda",
     v |-> [parameters |-> parameters, body |-> body,
            closure_variables |-> closure_variables, payload |-> lambda_payload,
            site |-> site]]

\* EvaluationContext; live says that `variables` is the dict of execute itself.
EvaluationContext(ctx_payload, ctx_variables, live, heap) ==
    [payload |-> ctx_payload, variables |-> ctx_variables, live |-> live, heap |-> heap]

TypeError(msg) == [kind |-> "TypeError", msg |-> msg]
NameError(msg) == [kind |-> "NameError", msg |-> msg]
NoException == [kind |-> "None", msg |-> ""]

\* What an evaluation produced: a value or a raised exception, and the
\* program positions on which _evaluate was invoked, in order.
Returned(value, log) == [ok |-> TRUE, value |-> value, err |-> NoException, log |-> log]
Raised(err, log) == [ok |-> FALSE, value |-> VNull, err |-> err, log |-> log]

\* dict operations on pair sequences
RECURSIVE DictIndex(_, _, _)
DictIndex(pairs, key, i) ==
    IF i > Len(pairs) THEN 0
    ELSE IF pairs[i][1] = key THEN i ELSE DictIndex(pairs, key, i + 1)

DictHas(pairs, key) == DictIndex(pairs, key, 1) # 0

\* pairs.get(key, None)
DictGet(pairs, key) ==
    IF DictHas(pairs, key) THEN pairs[DictIndex(pairs, key, 1)][2] ELSE VNull

\* pairs[key] = value: a present key keeps its position
DictSet(pairs, key, value) ==
    IF DictHas(pairs, key)
    THEN [pairs EXCEPT ![DictIndex(pairs, key, 1)] = <<key, value>>]
    ELSE Append(pairs, <<key, value>>)

DictValues(pairs) == [i \in 1..Len(pairs) |-> pairs[i][2]]

\* The object a reference denotes.
Deref(value, heap) == IF value = VLive THEN VDict(heap) ELSE value

IsNumber(value) == value.t \in {"int", "bool"}
\* bool is a subclass of int: True is 1 and False is 0
NumberOf(value) == IF value.t = "bool" THEN (IF value.v THEN 1 ELSE 0) ELSE value.v

callable(value) == value.t \in {"lambda", "builtin"}

\* Python bool(value)
PyBool(value) ==
    CASE value.t = "null" -> FALSE
      [] value.t = "bool" -> value.v
      [] value.t = "int" -> value.v # 0
      [] value.t = "str" -> value.v # ""
      [] value.t = "list" -> value.v # <<>>
      [] value.t = "dict" -> value.v # <<>>
      [] OTHER -> TRUE

\* Python ==
RECURSIVE PyEq(_, _)
PyEq(a, b) ==
    IF IsNumber(a) /\ IsNumber(b) THEN NumberOf(a) = NumberOf(b)
    ELSE IF a.t # b.t THEN FALSE
    ELSE IF a.t = "list"
    THEN /\ Len(a.v) = Len(b.v)
         /\ \A i \in 1..Len(a.v) : PyEq(a.v[i], b.v[i])
    ELSE IF a.t = "dict"
    THEN /\ Len(a.v) = Len(b.v)
         /\ \A i \in 1..Len(a.v) :
                /\ DictHas(b.v, a.v[i][1])
                /\ PyEq(a.v[i][2], DictGet(b.v, a.v[i][1]))
    ELSE a = b

\* _is_missing written as a truthiness test (`not value`): 0, false and the
\* empty string count as missing too.
_is_missing_falsy(value) ==
    value \in {VNull, VBool(FALSE), VInt(0), VStr(""), VList(<<>>), VDict(<<>>)}

_is_missing(value) == value.t = "null"

_is_truthy(value) ==
    IF value.t = "null" THEN FALSE
    ELSE IF value.t = "bool" THEN value.v
    ELSE PyBool(value)

\* _match_values that takes every pattern value for a match.
_match_values_always(value, pattern) ==
    TRUE

_match_values(value, pattern) == PyEq(value, pattern)

-----------------------------------------------------------------------------
(* Python operators on values.                                              *)

\* value or 0
OrZero(value) == IF PyBool(value) THEN value ELSE VInt(0)

RECURSIVE Repeat(_, _)
Repeat(seq, n) == IF n <= 0 THEN SubSeq(seq, 1, 0) ELSE seq \o Repeat(seq, n - 1)

\* a + b
PyAdd(a, b) ==
    IF IsNumber(a) /\ IsNumber(b) THEN Returned(VInt(NumberOf(a) + NumberOf(b)), <<>>)
    ELSE IF a.t = "str" /\ b.t = "str" THEN Returned(VStr(a.v \o b.v), <<>>)
    ELSE IF a.t = "list" /\ b.t = "list" THEN Returned(VList(a.v \o b.v), <<>>)
    ELSE Raised(TypeError("unsupported operand type(s) for +"), <<>>)

\* a * b
PyMul(a, b) ==
    IF IsNumber(a) /\ IsNumber(b) THEN Returned(VInt(NumberOf(a) * NumberOf(b)), <<>>)
    ELSE IF a.t \in {"str", "list"} /\ IsNumber(b)
    THEN Returned([t |-> a.t, v |-> Repeat(a.v, NumberOf(b))], <<>>)
    ELSE IF IsNumber(a) /\ b.t \in {"str", "list"}
    THEN Returned([t |-> b.t, v |-> Repeat(b.v, NumberOf(a))], <<>>)
    ELSE Raised(TypeError("unsupported operand type(s) for *"), <<>>)

\* a < b, a > b, a <= b, a >= b on numbers; an ordering between values of
\* different kinds, or with None, raises TypeError.  (Two strings or two
\* lists compare lexicographically in Python: not modelled, never drawn.)
PyOrder(op, a, b) ==
    IF IsNumber(a) /\ IsNumber(b)
    THEN Returned(VBool(CASE op = "gt" -> NumberOf(a) > NumberOf(b)
                          [] op = "lt" -> NumberOf(a) < NumberOf(b)
                          [] op = "gte" -> NumberOf(a) >= NumberOf(b)
                          [] op = "lte" -> NumberOf(a) <= NumberOf(b)), <<>>)
    ELSE IF a.t = b.t /\ a.t \in {"str", "list"}
    THEN Raised([kind |-> "NotModelled", msg |-> "lexicographic order"], <<>>)
    ELSE Raised(TypeError("ordering not supported between these instances"), <<>>)

_func_binary_plus(left, right) == PyAdd(OrZero(left), OrZero(right))
_func_binary_times(left, right) == PyMul(OrZero(left), OrZero(right))
_func_binary_eq(left, right) == Returned(VBool(PyEq(left, right)), <<>>)
_func_binary_neq(left, right) == Returned(VBool(~PyEq(left, right)), <<>>)
_func_binary_gt(left, right) == PyOrder("gt", left, right)
_func_binary_lt(left, right) == PyOrder("lt", left, right)
_func_binary_gte(left, right) == PyOrder("gte", left, right)
_func_binary_lte(left, right) == PyOrder("lte", left, right)

\* The names DataWeaveRuntime.__init__ adds to self._builtins.
RuntimeIntrinsics ==
    {"_binary_plus", "_binary_times", "_infix_map", "_infix_reduce", "_infix_filter",
     "_infix_flatMap", "_infix_distinctBy", "_infix_to", "_binary_eq", "_binary_neq",
     "_binary_gt", "_binary_lt", "_binary_gte", "_binary_lte"}

\* builtins.CORE_FUNCTIONS: the intrinsics the parser lowers `++` and `--` to.
CORE_FUNCTIONS == {"_binary_concat", "_binary_diff"}

_builtins == CORE_FUNCTIONS \cup RuntimeIntrinsics

\* hasattr(base, attribute) for a base that is neither None nor a dict:
\* the numeric attributes of int, the fields of the LambdaCallable dataclass.
\* No Python value has an attribute of another name that is drawn here.
hasattr(base, attribute) ==
    \/ IsNumber(base) /\ attribute \in {"real", "imag", "numerator", "denominator"}
    \/ base.t = "lambda" /\ attribute \in {"payload", "closure_variables"}

getattr(base, attribute) ==
    CASE IsNumber(base) /\ attribute \in {"real", "numerator"} -> VInt(NumberOf(base))
      [] IsNumber(base) /\ attribute = "imag" -> VInt(0)
      [] IsNumber(base) /\ attribute = "denominator" -> VInt(1)
      [] base.t = "lambda" /\ attribute = "payload" -> base.v.payload
      [] base.t = "lambda" /\ attribute = "closure_variables" ->
             VDict(base.v.closure_variables)

\* _resolve_property without its `if base is None: return None` guard: null
\* falls through to the attribute lookup, which fails.
_resolve_property_unguarded(base, attribute) ==
    IF base.t = "dict" THEN Returned(DictGet(base.v, attribute), <<>>)
    ELSE IF base.t # "null" /\ hasattr(base, attribute)
    THEN Returned(getattr(base, attribute), <<>>)
    ELSE Raised(TypeError("Cannot access attribute"), <<>>)

_resolve_property(base, attribute) ==
    IF base.t = "null" THEN Returned(VNull, <<>>)
    ELSE IF base.t = "dict" THEN Returned(DictGet(base.v, attribute), <<>>)
    ELSE IF hasattr(base, attribute) THEN Returned(getattr(base, attribute), <<>>)
    ELSE Raised(TypeError("Cannot access attribute"), <<>>)

RECURSIVE NatToStr(_)
NatToStr(n) ==
    LET digit == SubSeq("0123456789", (n % 10) + 1, (n % 10) + 1)
    IN IF n < 10 THEN digit ELSE NatToStr(n \div 10) \o digit

\* str(index) of a scalar
PyStr(value) ==
    CASE value.t = "str" -> value.v
      [] value.t = "int" -> IF value.v < 0 THEN "-" \o NatToStr(-value.v)
                            ELSE NatToStr(value.v)
      [] value.t = "bool" -> IF value.v THEN "True" ELSE "False"
      [] value.t = "null" -> "None"
      [] OTHER -> "<object>"

IsDigits(text) == Len(text) > 0 /\ RunEnd(text, 0, Digits) = Len(text)

_resolve_index(base, index) ==
    IF base.t = "null" THEN VNull
    ELSE IF base.t = "list"
    THEN \* int(index): a number, or a string of digits; anything else -> None
         Bind(IsNumber(index) \/ (index.t = "str" /\ IsDigits(index.v)), LAMBDA convertible :
             Bind(IF IsNumber(index) THEN NumberOf(index) ELSE DecimalValue(index.v, 0), LAMBDA idx :
            IF ~convertible THEN VNull
            ELSE IF idx < 0 \/ idx >= Len(base.v) THEN VNull
            ELSE base.v[idx + 1]))
    ELSE IF base.t = "dict" THEN DictGet(base.v, PyStr(index))
    ELSE IF base.t = "str" /\ IsNumber(index)
            /\ NumberOf(index) >= -Len(base.v) /\ NumberOf(index) < Len(base.v)
    THEN LET at == IF NumberOf(index) < 0 THEN NumberOf(index) + Len(base.v)
                   ELSE NumberOf(index)
         IN VStr(CharAt(base.v, at))
    ELSE VNull

_to_iterable(value) ==
    IF value.t = "null" THEN Returned(<<>>, <<>>)
    ELSE IF value.t = "list" THEN Returned(value.v, <<>>)
    ELSE IF value.t = "dict" THEN Returned(DictValues(value.v), <<>>)
    ELSE IF value.t = "str"
    THEN Returned([i \in 1..Len(value.v) |-> VStr(CharAt(value.v, i - 1))], <<>>)
    ELSE Raised(TypeError("object is not iterable"), <<>>)

-----------------------------------------------------------------------------
(* The evaluator, runtime.py.  A position in the program is a path of child *)
(* numbers from the root of a header declaration (<<k>>) or the body        *)
(* (<<0>>): it stands for the identity of the AST node object.              *)

RECURSIVE _evaluate(_, _, _)
RECURSIVE Call(_, _, _)

\* [self._evaluate(e, ctx) for e in exprs]; element i is at Append(path, i).
RECURSIVE evaluate_all(_, _, _, _, _, _)
evaluate_all(exprs, ctx, path, i, values, log) ==
    IF i > Len(exprs) THEN Returned(values, log)
    ELSE Bind(_evaluate(exprs[i], ctx, Append(path, i)), LAMBDA r :
            IF ~r.ok THEN Raised(r.err, log \o r.log)
            ELSE evaluate_all(exprs, ctx, path, i + 1, Append(values, r.value),
                              log \o r.log))

\* The dictionary of the fields with a repeated key keeping the value of its
\* first occurrence.
RECURSIVE dict_of_keeps_first(_, _, _, _)
dict_of_keeps_first(fields, values, i, pairs) ==
    IF i > Len(fields) THEN pairs
    ELSE dict_of_keeps_first(fields, values, i + 1,
                             IF DictHas(pairs, fields[i][1]) THEN pairs
                             ELSE DictSet(pairs, fields[i][1], values[i]))

\* {key: self._evaluate(value, ctx) for key, value in fields}
RECURSIVE dict_of(_, _, _, _)
dict_of(fields, values, i, pairs) ==
    IF i > Len(fields) THEN pairs
    ELSE dict_of(fields, values, i + 1, DictSet(pairs, fields[i][1], values[i]))

_evaluate_ObjectLiteral(expr, ctx, path) ==
    Bind(evaluate_all([i \in 1..Len(expr.fields) |-> expr.fields[i][2]],
                          ctx, path, 1, <<>>, <<>>), LAMBDA r :
       IF ~r.ok THEN r
       ELSE Returned(VDict(dict_of(expr.fields, r.value, 1, <<>>)), r.log))

_evaluate_ListLiteral(expr, ctx, path) ==
    Bind(evaluate_all(expr.elements, ctx, path, 1, <<>>, <<>>), LAMBDA r :
       IF ~r.ok THEN r ELSE Returned(VList(r.value), r.log))

\* _resolve_identifier looking among the local variables first.
_resolve_identifier_locals_first(name, ctx) ==
    IF DictHas(ctx.variables, name) THEN Returned(DictGet(ctx.variables, name), <<>>)
    ELSE IF name = "payload" THEN Returned(ctx.payload, <<>>)
    ELSE IF name = "vars"
    THEN Returned(IF ctx.live THEN VLive ELSE VDict(ctx.variables), <<>>)
    ELSE IF name \in _builtins THEN Returned(VBuiltin(name), <<>>)
    ELSE Raised(NameError("Unknown identifier"), <<>>)

_resolve_identifier(name, ctx) ==
    IF name = "payload" THEN Returned(ctx.payload, <<>>)
    ELSE IF name = "vars"
    THEN Returned(IF ctx.live THEN VLive ELSE VDict(ctx.variables), <<>>)
    ELSE IF name \in _builtins THEN Returned(VBuiltin(name), <<>>)
    ELSE IF DictHas(ctx.variables, name) THEN Returned(DictGet(ctx.variables, name), <<>>)
    ELSE Raised(NameError("Unknown identifier"), <<>>)

\* The PropertyAccess branch with the evaluation of the receiver inside the
\* try: a TypeError of the receiver is swallowed as well.
_evaluate_PropertyAccess_try_around_receiver(expr, ctx, path) ==
    Bind(_evaluate(expr.value, ctx, Append(path, 1)), LAMBDA base :
       IF ~base.ok
       THEN IF base.err.kind = "TypeError" /\ expr.null_safe
            THEN Returned(VNull, base.log)
            ELSE base
       ELSE Bind(_resolve_property(Deref(base.value, ctx.heap), expr.attribute), LAMBDA r :
               IF r.ok THEN Returned(r.value, base.log)
               ELSE IF r.err.kind = "TypeError" /\ expr.null_safe
                    THEN Returned(VNull, base.log)
                    ELSE Raised(r.err, base.log)))

_evaluate_PropertyAccess(expr, ctx, path) ==
    Bind(_evaluate(expr.value, ctx, Append(path, 1)), LAMBDA base :
       IF ~base.ok THEN base
       ELSE Bind(_resolve_property(Deref(base.value, ctx.heap), expr.attribute), LAMBDA r :
               IF r.ok THEN Returned(r.value, base.log)
               ELSE IF r.err.kind = "TypeError" /\ expr.null_safe
                    THEN Returned(VNull, base.log)
                    ELSE Raised(r.err, base.log)))

_evaluate_IndexAccess(expr, ctx, path) ==
    Bind(_evaluate(expr.value, ctx, Append(path, 1)), LAMBDA base :
       IF ~base.ok THEN base
       ELSE Bind(_evaluate(expr.index, ctx, Append(path, 2)), LAMBDA index :
               IF ~index.ok THEN Raised(index.err, base.log \o index.log)
               ELSE Returned(_resolve_index(Deref(base.value, ctx.heap),
                                            Deref(index.value, ctx.heap)),
                             base.log \o index.log)))

_evaluate_FunctionCall(expr, ctx, path) ==
    Bind(_evaluate(expr.function, ctx, Append(path, 0)), LAMBDA function :
       IF ~function.ok THEN function
       ELSE Bind(evaluate_all(expr.arguments, ctx, path, 1, <<>>, function.log), LAMBDA args :
               IF ~args.ok THEN args
               ELSE IF ~callable(function.value)
               THEN Raised(TypeError("Expression is not callable"), args.log)
               ELSE Bind(Call(function.value, args.value, ctx.heap), LAMBDA r :
                       [r EXCEPT !.log = args.log \o r.log])))

_evaluate_DefaultOp(expr, ctx, path) ==
    Bind(_evaluate(expr.left, ctx, Append(path, 1)), LAMBDA left_value :
       IF ~left_value.ok THEN left_value
       ELSE IF _is_missing(left_value.value)
       THEN Bind(_evaluate(expr.right, ctx, Append(path, 2)), LAMBDA right :
               [right EXCEPT !.log = left_value.log \o right.log])
       ELSE left_value)

_evaluate_LambdaExpression(expr, ctx, path) ==
    Returned(LambdaCallable(expr.parameters, expr.body, ctx.variables, ctx.payload, path),
             <<>>)

_evaluate_IfExpression(expr, ctx, path) ==
    Bind(_evaluate(expr.condition, ctx, Append(path, 1)), LAMBDA condition_value :
       IF ~condition_value.ok THEN condition_value
       ELSE Bind(_is_truthy(Deref(condition_value.value, ctx.heap)), LAMBDA taken :
                Bind(IF taken THEN expr.when_true ELSE expr.when_false, LAMBDA branch :
                Bind(_evaluate(branch, ctx, Append(path, IF taken THEN 2 ELSE 3)), LAMBDA r :
               [r EXCEPT !.log = condition_value.log \o r.log]))))

\* The positions of the parts of case i of a match at `path`.
MatcherAt(path, i) == path \o <<i, 1>>
GuardAt(path, i) == path \o <<i, 2>>
CaseExpressionAt(path, i) == path \o <<i, 3>>

\* match_cases with one environment for the whole match: a binding stays for
\* the cases after it.
RECURSIVE match_cases_shared_environment(_, _, _, _, _, _)
match_cases_shared_environment(expr, ctx, path, value, i, log) ==
    IF i > Len(expr.cases) THEN Returned(VNull, log)
    ELSE
    LET case == expr.cases[i]
        pattern == case.pattern
    IN IF pattern = PyNone
       THEN Bind(_evaluate(case.expression, ctx, CaseExpressionAt(path, i)), LAMBDA r :
               [r EXCEPT !.log = log \o r.log])
       ELSE
       Bind(
               IF pattern.binding # ""
               THEN EvaluationContext(ctx.payload,
                                      DictSet(ctx.variables, pattern.binding, value),
                                      FALSE, ctx.heap)
               ELSE ctx, LAMBDA match_context :
           Bind(IF pattern.matcher # PyNone
                       THEN _evaluate(pattern.matcher, ctx, MatcherAt(path, i))
                       ELSE Returned(value, <<>>), LAMBDA expected :
          IF ~expected.ok THEN Raised(expected.err, log \o expected.log)
          ELSE
          Bind(IF pattern.matcher # PyNone
                          THEN _match_values(value, expected.value) ELSE TRUE, LAMBDA matches1 :
              Bind(IF matches1 /\ pattern.guard # PyNone
                             THEN _evaluate(pattern.guard, match_context, GuardAt(path, i))
                             ELSE Returned(VBool(TRUE), <<>>), LAMBDA guard_value :
             IF ~guard_value.ok
             THEN Raised(guard_value.err, log \o expected.log \o guard_value.log)
             ELSE
             Bind(IF matches1 /\ pattern.guard # PyNone
                            THEN _is_truthy(Deref(guard_value.value, ctx.heap))
                            ELSE matches1, LAMBDA matches :
                 Bind(log \o expected.log \o guard_value.log, LAMBDA seen :
                IF matches
                THEN Bind(_evaluate(case.expression, match_context,
                                        CaseExpressionAt(path, i)), LAMBDA r :
                        [r EXCEPT !.log = seen \o r.log])
                ELSE match_cases_shared_environment(expr, match_context, path, value,
                                                    i + 1, seen)))))))

\* `for case in expr.cases` from case i, with the subject `value`.
RECURSIVE match_cases(_, _, _, _, _, _)
match_cases(expr, ctx, path, value, i, log) ==
    IF i > Len(expr.cases) THEN Returned(VNull, log)
    ELSE
    LET case == expr.cases[i]
        pattern == case.pattern
    IN IF pattern = PyNone
       THEN Bind(_evaluate(case.expression, ctx, CaseExpressionAt(path, i)), LAMBDA r :
               [r EXCEPT !.log = log \o r.log])
       ELSE
       Bind(
               IF pattern.binding # ""
               THEN EvaluationContext(ctx.payload,
                                      DictSet(ctx.variables, pattern.binding, value),
                                      FALSE, ctx.heap)
               ELSE ctx, LAMBDA match_context :
           Bind(IF pattern.matcher # PyNone
                       THEN _evaluate(pattern.matcher, ctx, MatcherAt(path, i))
                       ELSE Returned(value, <<>>), LAMBDA expected :
          IF ~expected.ok THEN Raised(expected.err, log \o expected.log)
          ELSE
          Bind(IF pattern.matcher # PyNone
                          THEN _match_values(value, expected.value) ELSE TRUE, LAMBDA matches1 :
              Bind(IF matches1 /\ pattern.guard # PyNone
                             THEN _evaluate(pattern.guard, match_context, GuardAt(path, i))
                             ELSE Returned(VBool(TRUE), <<>>), LAMBDA guard_value :
             IF ~guard_value.ok
             THEN Raised(guard_value.err, log \o expected.log \o guard_value.log)
             ELSE
             Bind(IF matches1 /\ pattern.guard # PyNone
                            THEN _is_truthy(Deref(guard_value.value, ctx.heap))
                            ELSE matches1, LAMBDA matches :
                 Bind(log \o expected.log \o guard_value.log, LAMBDA seen :
                IF matches
                THEN Bind(_evaluate(case.expression, match_context,
                                        CaseExpressionAt(path, i)), LAMBDA r :
                        [r EXCEPT !.log = seen \o r.log])
                ELSE match_cases(expr, ctx, path, value, i + 1, seen)))))))

_evaluate_MatchExpression(expr, ctx, path) ==
    Bind(_evaluate(expr.value, ctx, Append(path, 0)), LAMBDA value :
       IF ~value.ok THEN value
       ELSE match_cases(expr, ctx, path, value.value, 1, value.log))

_evaluate(expr, ctx, path) ==
    Bind(CASE expr.type = "ObjectLiteral" -> _evaluate_ObjectLiteral(expr, ctx, path)
               [] expr.type = "ListLiteral" -> _evaluate_ListLiteral(expr, ctx, path)
               [] expr.type = "StringLiteral" -> Returned(VStr(expr.value), <<>>)
               [] expr.type = "NumberLiteral" -> Returned(VInt(expr.value), <<>>)
               [] expr.type = "BooleanLiteral" -> Returned(VBool(expr.value), <<>>)
               [] expr.type = "NullLiteral" -> Returned(VNull, <<>>)
               [] expr.type = "Identifier" -> _resolve_identifier(expr.name, ctx)
               [] expr.type = "PropertyAccess" -> _evaluate_PropertyAccess(expr, ctx, path)
               [] expr.type = "IndexAccess" -> _evaluate_IndexAccess(expr, ctx, path)
               [] expr.type = "FunctionCall" -> _evaluate_FunctionCall(expr, ctx, path)
               [] expr.type = "DefaultOp" -> _evaluate_DefaultOp(expr, ctx, path)
               [] expr.type = "LambdaExpression" ->
                      _evaluate_LambdaExpression(expr, ctx, path)
               [] expr.type = "IfExpression" -> _evaluate_IfExpression(expr, ctx, path)
               [] expr.type = "MatchExpression" ->
                      _evaluate_MatchExpression(expr, ctx, path)
               [] OTHER -> Raised(TypeError("Unsupported expression"), <<>>), LAMBDA r :
       [r EXCEPT !.log = <<path>> \o r.log])

-----------------------------------------------------------------------------
(* Calls: LambdaCallable.__call__, the helpers of the builtins module and   *)
(* the higher-order intrinsics.                                             *)

\* The binding of the parameters with a parameter that has neither an
\* argument nor a default bound to null.
RECURSIVE bind_parameters_null_for_missing(_, _, _, _, _, _)
bind_parameters_null_for_missing(self, provided_args, i, local_vars, log, heap) ==
    IF i > Len(self.parameters) THEN Returned(local_vars, log)
    ELSE
    LET parameter == self.parameters[i]
    IN IF i <= Len(provided_args)
       THEN bind_parameters_null_for_missing(self, provided_args, i + 1,
                            DictSet(local_vars, parameter.name, provided_args[i]),
                            log, heap)
       ELSE IF parameter.default # PyNone
       THEN Bind(EvaluationContext(self.payload, local_vars, FALSE, heap), LAMBDA default_ctx :
                Bind(_evaluate(parameter.default, default_ctx, Append(self.site, i)), LAMBDA r :
               IF ~r.ok THEN Raised(r.err, log \o r.log)
               ELSE bind_parameters_null_for_missing(self, provided_args, i + 1,
                                    DictSet(local_vars, parameter.name, r.value),
                                    log \o r.log, heap)))
       ELSE bind_parameters_null_for_missing(self, provided_args, i + 1,
                            DictSet(local_vars, parameter.name, VNull), log, heap)

\* `for index, parameter in enumerate(self.parameters)` from parameter i
\* (1-based), with local_vars so far.
RECURSIVE bind_parameters(_, _, _, _, _, _)
bind_parameters(self, provided_args, i, local_vars, log, heap) ==
    IF i > Len(self.parameters) THEN Returned(local_vars, log)
    ELSE
    LET parameter == self.parameters[i]
    IN IF i <= Len(provided_args)
       THEN bind_parameters(self, provided_args, i + 1,
                            DictSet(local_vars, parameter.name, provided_args[i]),
                            log, heap)
       ELSE IF parameter.default # PyNone
       THEN Bind(EvaluationContext(self.payload, local_vars, FALSE, heap), LAMBDA default_ctx :
                Bind(_evaluate(parameter.default, default_ctx, Append(self.site, i)), LAMBDA r :
               IF ~r.ok THEN Raised(r.err, log \o r.log)
               ELSE bind_parameters(self, provided_args, i + 1,
                                    DictSet(local_vars, parameter.name, r.value),
                                    log \o r.log, heap)))
       ELSE Raised(TypeError("Missing argument '" \o parameter.name \o "' for lambda"), log)

\* LambdaCallable.__call__ without the check of len(provided_args) against
\* len(self.parameters): surplus arguments are ignored.
LambdaCallable___call___unchecked(self, args, heap) ==
    Bind(bind_parameters(self, args, 1, self.closure_variables, <<>>, heap), LAMBDA local_vars :
       IF ~local_vars.ok THEN local_vars
       ELSE Bind(EvaluationContext(self.payload, local_vars.value, FALSE, heap), LAMBDA body_ctx :
                Bind(_evaluate(self.body, body_ctx, Append(self.site, 0)), LAMBDA r :
               [r EXCEPT !.log = local_vars.log \o r.log])))

\* LambdaCallable.__call__ starting from the variables of execute as they are
\* at the call, in place of the snapshot taken at construction.
LambdaCallable___call___live_variables(self, args, heap) ==
    IF Len(args) > Len(self.parameters)
    THEN Raised(TypeError("Too many arguments supplied to lambda expression"), <<>>)
    ELSE Bind(bind_parameters(self, args, 1, heap, <<>>, heap), LAMBDA local_vars :
            IF ~local_vars.ok THEN local_vars
            ELSE Bind(EvaluationContext(self.payload, local_vars.value,
                                                   FALSE, heap), LAMBDA body_ctx :
                     Bind(_evaluate(self.body, body_ctx, Append(self.site, 0)), LAMBDA r :
                    [r EXCEPT !.log = local_vars.log \o r.log])))

\* LambdaCallable.__call__(*args)
LambdaCallable___call__(self, args, heap) ==
    IF Len(args) > Len(self.parameters)
    THEN Raised(TypeError("Too many arguments supplied to lambda expression"), <<>>)
    ELSE Bind(bind_parameters(self, args, 1, self.closure_variables,
                                           <<>>, heap), LAMBDA local_vars :
            IF ~local_vars.ok THEN local_vars
            ELSE Bind(EvaluationContext(self.payload, local_vars.value,
                                                   FALSE, heap), LAMBDA body_ctx :
                     Bind(_evaluate(self.body, body_ctx, Append(self.site, 0)), LAMBDA r :
                    [r EXCEPT !.log = local_vars.log \o r.log])))

\* builtins.parameter_count: the declared parameters of a user lambda; the
\* intrinsics of the runtime all take two.
parameter_count(function) ==
    IF function.t = "lambda" THEN Len(function.v.parameters) ELSE 2

\* builtins.invoke_lambda(function, *args), which is not part of src/.  The
\* scenarios of the spec fix what it does with a user lambda: `map (i) -> i * 2`
\* is handed (item, index), so arguments beyond the declared parameters are
\* dropped; `reduce (item, acc) -> item + acc` is seeded with one argument and
\* yields 6, so the parameters beyond the arguments receive null.
invoke_lambda(function, args, heap) ==
    LET count == parameter_count(function)
    IN IF ~callable(function) THEN Raised(TypeError("object is not callable"), <<>>)
       ELSE IF function.t # "lambda" THEN Call(function, args, heap)
       ELSE Call(function,
                 [i \in 1..count |-> IF i <= Len(args) THEN args[i] ELSE VNull], heap)

\* builtins.builtin_to: the inclusive integer range [start, end].
builtin_to(start, end) ==
    IF start.t = "int" /\ end.t = "int"
    THEN Returned(VList([i \in 1..(end.v - start.v + 1) |-> VInt(start.v + i - 1)]), <<>>)
    ELSE Raised(TypeError("range bounds must be integers"), <<>>)

RECURSIVE infix_map_loop(_, _, _, _, _, _)
infix_map_loop(items, function, i, result, log, heap) ==
    IF i > Len(items) THEN Returned(VList(result), log)
    ELSE Bind(invoke_lambda(function, <<items[i], VInt(i - 1)>>, heap), LAMBDA r :
            IF ~r.ok THEN Raised(r.err, log \o r.log)
            ELSE infix_map_loop(items, function, i + 1, Append(result, r.value),
                                log \o r.log, heap))

_func_infix_map(sequence, function, heap) ==
    Bind(_to_iterable(Deref(sequence, heap)), LAMBDA iterable :
       IF ~iterable.ok THEN iterable
       ELSE infix_map_loop(iterable.value, function, 1, <<>>, <<>>, heap))

\* The accumulator that marks `no element seen yet`.
Missing == [t |-> "Missing", v |-> 0]

\* reduce_step with the arity test written `param_count >= 1`: a callable of
\* one parameter is handed the accumulator as well.
reduce_step_accumulator_to_all(function, item, accumulator, heap) ==
    IF accumulator = Missing THEN invoke_lambda(function, <<item>>, heap)
    ELSE IF ~callable(function) THEN Raised(TypeError("object is not callable"), <<>>)
    ELSE IF parameter_count(function) >= 1
    THEN Call(function, <<item, accumulator>>, heap)
    ELSE Call(function, <<item>>, heap)

\* One iteration of the loop of _func_infix_reduce on `item`.
reduce_step(function, item, accumulator, heap) ==
    IF accumulator = Missing THEN invoke_lambda(function, <<item>>, heap)
    ELSE IF ~callable(function) THEN Raised(TypeError("object is not callable"), <<>>)
    ELSE IF parameter_count(function) > 1
    THEN Call(function, <<item, accumulator>>, heap)
    ELSE Call(function, <<item>>, heap)

RECURSIVE infix_reduce_loop(_, _, _, _, _, _)
infix_reduce_loop(items, function, i, accumulator, log, heap) ==
    IF i > Len(items)
    THEN Returned(IF accumulator = Missing THEN VNull ELSE accumulator, log)
    ELSE Bind(reduce_step(function, items[i], accumulator, heap), LAMBDA r :
            IF ~r.ok THEN Raised(r.err, log \o r.log)
            ELSE infix_reduce_loop(items, function, i + 1, r.value, log \o r.log, heap))

_func_infix_reduce(sequence, function, heap) ==
    Bind(_to_iterable(Deref(sequence, heap)), LAMBDA iterable :
       IF ~iterable.ok THEN iterable
       ELSE infix_reduce_loop(iterable.value, function, 1, Missing, <<>>, heap))

RECURSIVE infix_filter_loop(_, _, _, _, _, _)
infix_filter_loop(items, function, i, result, log, heap) ==
    IF i > Len(items) THEN Returned(VList(result), log)
    ELSE Bind(invoke_lambda(function, <<items[i], VInt(i - 1)>>, heap), LAMBDA r :
            IF ~r.ok THEN Raised(r.err, log \o r.log)
            ELSE infix_filter_loop(items, function, i + 1,
                     IF _is_truthy(Deref(r.value, heap)) THEN Append(result, items[i])
                     ELSE result,
                     log \o r.log, heap))

_func_infix_filter(sequence, function, heap) ==
    Bind(_to_iterable(Deref(sequence, heap)), LAMBDA iterable :
       IF ~iterable.ok THEN iterable
       ELSE infix_filter_loop(iterable.value, function, 1, <<>>, <<>>, heap))

RECURSIVE infix_flat_map_loop(_, _, _, _, _, _)
infix_flat_map_loop(items, function, i, result, log, heap) ==
    IF i > Len(items) THEN Returned(VList(result), log)
    ELSE Bind(invoke_lambda(function, <<items[i], VInt(i - 1)>>, heap), LAMBDA r :
             Bind(_to_iterable(Deref(r.value, heap)), LAMBDA mapped :
            IF ~r.ok THEN Raised(r.err, log \o r.log)
            ELSE IF ~mapped.ok THEN Raised(mapped.err, log \o r.log)
            ELSE infix_flat_map_loop(items, function, i + 1, result \o mapped.value,
                                     log \o r.log, heap)))

_func_infix_flat_map(sequence, function, heap) ==
    Bind(_to_iterable(Deref(sequence, heap)), LAMBDA iterable :
       IF ~iterable.ok THEN iterable
       ELSE infix_flat_map_loop(iterable.value, function, 1, <<>>, <<>>, heap))

\* builtins._hashable_key: two keys have the same marker when they are equal.
RECURSIVE infix_distinct_by_loop(_, _, _, _, _, _, _)
infix_distinct_by_loop(items, function, i, seen, result, log, heap) ==
    IF i > Len(items) THEN Returned(VList(result), log)
    ELSE Bind(invoke_lambda(function, <<items[i], VInt(i - 1)>>, heap), LAMBDA r :
             Bind(\A k \in 1..Len(seen) : ~PyEq(seen[k], r.value), LAMBDA fresh :
            IF ~r.ok THEN Raised(r.err, log \o r.log)
            ELSE infix_distinct_by_loop(items, function, i + 1,
                     IF fresh THEN Append(seen, r.value) ELSE seen,
                     IF fresh THEN Append(result, items[i]) ELSE result,
                     log \o r.log, heap)))

_func_infix_distinct_by(sequence, function, heap) ==
    Bind(_to_iterable(Deref(sequence, heap)), LAMBDA iterable :
       IF ~iterable.ok THEN iterable
       ELSE IF function.t = "null" THEN Returned(VList(iterable.value), <<>>)
       ELSE infix_distinct_by_loop(iterable.value, function, 1, <<>>, <<>>, <<>>, heap))

_func_infix_to(start, end) == builtin_to(start, end)

\* builtins._binary_concat, the intrinsic of `++`: strings and lists are joined.
_binary_concat(left, right) ==
    IF left.t = right.t /\ left.t \in {"str", "list"}
    THEN Returned([t |-> left.t, v |-> left.v \o right.v], <<>>)
    ELSE Raised(TypeError("cannot concatenate"), <<>>)

\* function(*args) for a callable value
Call(function, args, heap) ==
    IF function.t = "lambda" THEN LambdaCallable___call__(function.v, args, heap)
    ELSE IF Len(args) # 2
    THEN Raised(TypeError("wrong number of positional arguments"), <<>>)
    ELSE LET name == function.v
             a == args[1]
             b == args[2]
         IN CASE name = "_binary_plus" -> _func_binary_plus(a, b)
              [] name = "_binary_times" -> _func_binary_times(a, b)
              [] name = "_infix_map" -> _func_infix_map(a, b, heap)
              [] name = "_infix_reduce" -> _func_infix_reduce(a, b, heap)
              [] name = "_infix_filter" -> _func_infix_filter(a, b, heap)
              [] name = "_infix_flatMap" -> _func_infix_flat_map(a, b, heap)
              [] name = "_infix_distinctBy" -> _func_infix_distinct_by(a, b, heap)
              [] name = "_infix_to" -> _func_infix_to(a, b)
              [] name = "_binary_eq" -> _func_binary_eq(a, b)
              [] name = "_binary_neq" -> _func_binary_neq(a, b)
              [] name = "_binary_gt" -> _func_binary_gt(a, b)
              [] name = "_binary_lt" -> _func_binary_lt(a, b)
              [] name = "_binary_gte" -> _func_binary_gte(a, b)
              [] name = "_binary_lte" -> _func_binary_lte(a, b)
              [] name = "_binary_concat" -> _binary_concat(a, b)

-----------------------------------------------------------------------------
(* parse_script and _parse_header, parser.py: the line-oriented header.     *)

lstrip(text) == Slice(text, RunEnd(text, 0, Whitespace), Len(text))

rstrip(text) ==
    LET kept == {i \in 1..Len(text) : SubSeq(text, i, i) \notin Whitespace}
    IN IF kept = {} THEN ""
       ELSE SubSeq(text, 1, CHOOSE i \in kept : \A j \in kept : j <= i)

\* text.strip()
strip(text) == rstrip(lstrip(text))

\* text.endswith(suffix)
endswith(text, suffix) ==
    Len(suffix) <= Len(text) /\ SubSeq(text, Len(text) - Len(suffix) + 1, Len(text)) = suffix

\* text.splitlines(): the lines between the line boundaries \n, \r\n, \r, \f.
LineBoundaries == {"\n", "\r", "\f"}
RECURSIVE splitlines_from(_, _, _)
splitlines_from(text, start, lines) ==
    Bind(RunEndNot(text, start, LineBoundaries), LAMBDA brk :
        Bind(IF startswith(text, "\r\n", brk) THEN brk + 2 ELSE brk + 1, LAMBDA next :
       IF start >= Len(text) THEN lines
       ELSE splitlines_from(text, next, Append(lines, Slice(text, start, brk)))))

splitlines(text) == splitlines_from(text, 0, <<>>)

\* text.split(): the runs of non-whitespace characters.
RECURSIVE split_whitespace(_, _)
split_whitespace(text, parts) ==
    Bind(lstrip(text), LAMBDA rest :
        Bind(RunEndNot(rest, 0, Whitespace), LAMBDA end :
       IF Len(rest) = 0 THEN parts
       ELSE split_whitespace(Slice(rest, end, Len(rest)), Append(parts, Slice(rest, 0, end)))))

Header(version, output, imports, declarations) ==
    [version |-> version, output |-> output, imports |-> imports,
     variables |-> declarations]
VarDeclaration(name, expression) == [name |-> name, expression |-> expression]

HeaderError(msg, idx) ==
    [kind |-> "ParseError", msg |-> msg, positioned |-> FALSE, line |-> idx, column |-> 0]

\* The `var ` directive on stripped line number idx.
parse_var_line(line, idx) ==
    Bind(strip(Slice(line, 4, Len(line))), LAMBDA declaration_source :
        Bind(find(declaration_source, "=", 0), LAMBDA eq :
        Bind(strip(Slice(declaration_source, 0, eq)), LAMBDA name :
        Bind(Slice(declaration_source, eq + 1, Len(declaration_source)), LAMBDA expr_part :
       IF eq = -1
       THEN Raise(HeaderError("Invalid var declaration (missing '=')", idx), 0)
       ELSE IF name = "" THEN Raise(HeaderError("Variable name cannot be empty", idx), 0)
       ELSE Bind(parse_expression_from_source(strip(expr_part)), LAMBDA expression :
               IF ~expression.ok THEN expression
               ELSE Ok(VarDeclaration(name, expression.expr), 0))))))

\* The for loop of _parse_header from line idx (1-based); version "" is None.
RECURSIVE _parse_header_loop(_, _, _, _)
_parse_header_loop(lines, idx, in_block_comment, hdr) ==
    IF idx > Len(lines)
    THEN IF hdr.version = "" THEN Raise(ParseErrorPlain("Missing %dw directive"), 0)
         ELSE Ok(hdr, 0)
    ELSE
    Bind(strip(lines[idx]), LAMBDA line :
       IF in_block_comment
       THEN _parse_header_loop(lines, idx + 1, find(line, "*/", 0) = -1, hdr)
       ELSE IF startswith(line, "/*", 0)
       THEN _parse_header_loop(lines, idx + 1, ~endswith(line, "*/"), hdr)
       ELSE IF startswith(line, "//", 0) \/ line = ""
       THEN _parse_header_loop(lines, idx + 1, FALSE, hdr)
       ELSE IF startswith(line, "%dw", 0)
       THEN Bind(split_whitespace(line, <<>>), LAMBDA parts :
               IF Len(parts) < 2
               THEN Raise(HeaderError("Invalid %dw directive", idx), 0)
               ELSE _parse_header_loop(lines, idx + 1, FALSE,
                                       [hdr EXCEPT !.version = parts[2]]))
       ELSE IF startswith(line, "output", 0)
       THEN _parse_header_loop(lines, idx + 1, FALSE,
                [hdr EXCEPT !.output = strip(Slice(line, 6, Len(line)))])
       ELSE IF startswith(line, "import ", 0)
       THEN _parse_header_loop(lines, idx + 1, FALSE,
                [hdr EXCEPT !.imports = Append(@, strip(Slice(line, 7, Len(line))))])
       ELSE IF startswith(line, "var ", 0)
       THEN Bind(parse_var_line(line, idx), LAMBDA declaration :
               IF ~declaration.ok THEN declaration
               ELSE _parse_header_loop(lines, idx + 1, FALSE,
                        [hdr EXCEPT !.variables = Append(@, declaration.expr)]))
       ELSE Raise(HeaderError("Unsupported header directive", idx), 0))

_parse_header(header_source) ==
    _parse_header_loop(splitlines(header_source), 1, FALSE, Header("", "", <<>>, <<>>))

Script(script_header, body) == [header |-> script_header, body |-> body]

\* parse_script refusing a source in which `---` occurs again after the
\* separator.
parse_script_exactly_once(source) ==
    LET at == find(source, "---", 0)
    IN IF at = -1 \/ find(source, "---", at + 1) # -1
       THEN Raise(ParseErrorPlain("Script must contain body separator '---'"), 0)
       ELSE Bind(strip(Slice(source, 0, at)), LAMBDA header_source :
                Bind(strip(Slice(source, at + 3, Len(source))), LAMBDA body_source :
                Bind(_parse_header(header_source), LAMBDA hdr :
               IF ~hdr.ok THEN hdr
               ELSE Bind(parse_expression_from_source(body_source), LAMBDA body_expr :
                       IF ~body_expr.ok THEN body_expr
                       ELSE Ok(Script(hdr.expr, body_expr.expr), 0)))))

parse_script(source) ==
    LET at == find(source, "---", 0)
    IN IF at = -1
       THEN Raise(ParseErrorPlain("Script must contain body separator '---'"), 0)
       ELSE Bind(strip(Slice(source, 0, at)), LAMBDA header_source :
                Bind(strip(Slice(source, at + 3, Len(source))), LAMBDA body_source :
                Bind(_parse_header(header_source), LAMBDA hdr :
               IF ~hdr.ok THEN hdr
               ELSE Bind(parse_expression_from_source(body_source), LAMBDA body_expr :
                       IF ~body_expr.ok THEN body_expr
                       ELSE Ok(Script(hdr.expr, body_expr.expr), 0)))))

-----------------------------------------------------------------------------
(* DataWeaveRuntime.execute as a state machine.                             *)

NotYet == [ok |-> FALSE, value |-> VNull, err |-> [kind |-> "NotYet", msg |-> ""],
           log |-> <<>>]
NotParsed == Raise([kind |-> "NotYet", msg |-> "", positioned |-> FALSE, line |-> 0,
                    column |-> 0], 0)

\* No Parser has been constructed.
NoParser == [tokens |-> <<>>, index |-> 0, stack |-> <<>>, signal |-> "run", restores |-> 0]

\* The exception of a failed parse as the outcome of execute.
ParseFailure(err) == [ok |-> FALSE, value |-> VNull, err |-> [kind |-> err.kind, msg |-> err.msg],
                      log |-> <<>>]

\* script = parser.parse_script(script_source)
ParseScript ==
    /\ pc = "parse"
    /\ script' = parse_script(script_source)
    /\ IF script'.ok
       THEN /\ pc' = "declare"
            /\ outcome' = outcome
       ELSE /\ pc' = "done"
            /\ outcome' = ParseFailure(script'.err)
    /\ declIndex' = 1
    /\ UNCHANGED <<script_source, payload, variables, evalLog, built, parsed, fragments, parser>>

\* The loop of execute keeping the first value declared for a name.
EvaluateDeclaration_keeps_first ==
    /\ pc = "declare"
    /\ declIndex <= Len(script.expr.header.variables)
    /\ \E declaration \in {script.expr.header.variables[declIndex]} :
       \E value \in {_evaluate(declaration.expression,
                                EvaluationContext(payload, variables, TRUE, variables),
                                <<declIndex>>)} :
          /\ evalLog' = evalLog \o value.log
          /\ IF value.ok
             THEN /\ variables' =
                        IF DictHas(variables, declaration.name) THEN variables
                        ELSE DictSet(variables, declaration.name, value.value)
                  /\ declIndex' = declIndex + 1
                  /\ pc' = pc
                  /\ outcome' = outcome
                  /\ built' = built
             ELSE /\ pc' = "done"
                  /\ outcome' = value
                  /\ UNCHANGED <<variables, declIndex, built>>
    /\ UNCHANGED <<script_source, payload, script, parsed, fragments, parser>>

\* One iteration of `for declaration in script.header.variables`.
EvaluateDeclaration ==
    /\ pc = "declare"
    /\ declIndex <= Len(script.expr.header.variables)
    /\ \E declaration \in {script.expr.header.variables[declIndex]} :
       \E value \in {_evaluate(declaration.expression,
                                EvaluationContext(payload, variables, TRUE, variables),
                                <<declIndex>>)} :
          /\ evalLog' = evalLog \o value.log
          /\ IF value.ok
             THEN /\ variables' = DictSet(variables, declaration.name, value.value)
                  /\ declIndex' = declIndex + 1
                  /\ pc' = pc
                  /\ outcome' = outcome
                  /\ built' =
                        IF value.value.t = "lambda"
                        THEN Append(built,
                                    [name |-> declaration.name, lambda |-> value.value,
                                     result |-> Call(value.value, <<>>, variables)])
                        ELSE built
             ELSE /\ pc' = "done"
                  /\ outcome' = value
                  /\ UNCHANGED <<variables, declIndex, built>>
    /\ UNCHANGED <<script_source, payload, script, parsed, fragments, parser>>

\* return self._evaluate(script.body, context)
EvaluateBody ==
    /\ pc = "declare"
    /\ declIndex > Len(script.expr.header.variables)
    /\ \E value \in {_evaluate(script.expr.body,
                                EvaluationContext(payload, variables, TRUE, variables),
                                <<0>>)} :
          /\ outcome' = value
          /\ evalLog' = evalLog \o value.log
    /\ pc' = "done"
    /\ UNCHANGED <<script_source, payload, variables, script, declIndex, built, parsed,
                   fragments, parser>>

-----------------------------------------------------------------------------
(* Inputs: the scripts handed to execute, built from text fragments.        *)

MaxItems == 3
MaxArgs == 3

\* "%dw 2.0", the header declarations (one per line), "---", the body.
ScriptOf(declarations, body) == "%dw 2.0\n" \o declarations \o "---\n" \o body
BodyOf(body) == ScriptOf("", body)

RECURSIVE JoinTexts(_, _)
JoinTexts(texts, separator) ==
    IF Len(texts) = 0 THEN ""
    ELSE IF Len(texts) = 1 THEN texts[1]
    ELSE texts[1] \o separator \o JoinTexts(Tail(texts), separator)

\* [1, 2, .., n]
ListText(n) == "[" \o JoinTexts([i \in 1..n |-> NatToStr(i)], ", ") \o "]"

\* the first k of the arguments 5, 7, 8, 9, ..
ArgumentText(i) == IF i = 1 THEN "5" ELSE NatToStr(i + 5)
ArgumentsText(k) == JoinTexts([i \in 1..k |-> ArgumentText(i)], ", ")

DefaultLefts == {"null", "0", "false", "''", "5", "payload", "payload.a", "missing"}
DefaultRights == {"1", "payload", "missing", "null"}
DefaultScripts ==
    {BodyOf(l \o " default " \o r) : l \in DefaultLefts, r \in DefaultRights}
    \cup {BodyOf("null default null default 2"), BodyOf("payload default 0 default missing"),
          BodyOf("((a) -> a default 9)(payload)"),
          BodyOf("[payload default 1, null default 2]")}

Receivers == {"null", "payload", "payload.a", "5", "'ab'", "{x: 1}", "[1]", "missing"}
Attributes == {"x", "real"}
PropertyScripts ==
    {BodyOf(r \o op \o a) : r \in Receivers, op \in {".", "?."}, a \in Attributes}

Lambdas ==
    {"(a, b = 10) -> a + b", "(a, b) -> a", "() -> 1", "(a = missing) -> 1",
     "(a = 1, b = a) -> [a, b]", "(a = payload) -> missing"}
CallScripts ==
    {BodyOf("(" \o f \o ")(" \o ArgumentsText(k) \o ")") : f \in Lambdas, k \in 0..MaxArgs}

Reducers ==
    {"(x) -> x + 1", "(item, acc) -> item + acc", "(item, acc = 0) -> item + acc",
     "() -> 7", "(item, acc) -> acc"}
Sequences1 == {ListText(n) : n \in 0..MaxItems} \cup {"null", "payload"}
ReduceScripts == {BodyOf(s \o " reduce " \o f) : s \in Sequences1, f \in Reducers}

ToScripts ==
    {BodyOf("1 to " \o NatToStr(n) \o " map (n) -> n * n") : n \in 1..MaxItems}
    \cup {BodyOf("1 to 2 filter (n) -> n > 1"), BodyOf("payload to 2 map (n) -> n + 1")}

MatchExample ==
    "payload match { case var n when n > 0 -> \"pos\", case 0 -> \"zero\", else -> \"neg\" }"
MatchScripts ==
    {BodyOf(MatchExample),
     BodyOf("payload match { case 0 -> 'zero' }"),
     BodyOf("payload match { else -> 'e', case 0 -> missing }"),
     BodyOf("payload match { case 0 -> 'a', case 0 -> 'b', else -> 'c' }"),
     BodyOf("payload match { case var n when n > 0 -> n, case var m -> 0 }"),
     BodyOf("payload match { case missing -> 1, else -> 2 }"),
     BodyOf("payload match { case var n when missing -> 1 }"),
     BodyOf("payload.a match { case var n when n -> 'y', case 5 -> missing }"),
     BodyOf("missing match { else -> 1 }")}

ClosureScripts ==
    {ScriptOf("var x = 1\nvar f = () -> x\nvar x = 2\n", "f()"),
     ScriptOf("var f = () -> x\nvar x = 1\n", "f()"),
     ScriptOf("var f = () -> vars.x\nvar x = 1\n", "f()"),
     ScriptOf("var v = vars\nvar f = () -> v.x\nvar x = 1\n", "f()"),
     ScriptOf("var n = 1\nvar f = () -> n\n", "payload match { case var n -> f() }"),
     ScriptOf("var f = (a = x) -> a\nvar x = payload\n", "f()"),
     ScriptOf("var x = payload\nvar f = () -> x\n", "[f(), x]"),
     ScriptOf("var x = missing\nvar f = () -> x\n", "f()"),
     ScriptOf("var f = ) -> x\n", "f()"),
     BodyOf("1 +")}

\* `a to b op c` for the infix identifiers op, special and user-defined.
ToLefts == {"1", "payload", "x"}
ToRights == {"3", "payload.a", "(2)"}
InfixNames == {"map", "reduce", "filter", "flatMap", "distinctBy", "to", "zip"}
InfixOperands == {"(n) -> n * n", "2", "f"}
ToChain(a, b, op, c) == a \o " to " \o b \o " " \o op \o " " \o c
Scripts ==
    DefaultScripts \cup PropertyScripts \cup CallScripts \cup ReduceScripts
    \cup ToScripts \cup MatchScripts \cup ClosureScripts

Payloads ==
    {VNull, VInt(-1), VInt(0), VInt(5), VBool(FALSE), VStr(""),
     VDict(<< <<"a", VNull>>, <<"x", VInt(7)>> >>), VDict(<< <<"a", VInt(5)>> >>)}

\* the `vars` argument of execute
CallerVars == {<<>>, << <<"x", VInt(9)>> >>}

ToChainPayloads == {VNull, VDict(<< <<"a", VInt(2)>> >>)}

\* One name in the five places a script can meet it: looked up bare in the
\* body (where the caller's vars may hold it), declared in the header, bound
\* by a match case, or taken as a lambda parameter (each bound to 7).
LookupNames == {"payload", "vars", "_binary_plus", "_infix_map", "y", "missing"}
LookupPlaces == {"body", "header", "match", "lambda"}
LookupScript(place, name) ==
    CASE place = "body" -> BodyOf(name)
      [] place = "header" -> ScriptOf("var " \o name \o " = 7\n", name)
      [] place = "match" -> BodyOf("7 match { case var " \o name \o " -> " \o name \o " }")
      [] place = "lambda" -> BodyOf("((" \o name \o ") -> " \o name \o ")(7)")
LookupPayloads == {VNull, VInt(5)}
LookupVars ==
    {<<>>,
     << <<"payload", VInt(1)>>, <<"vars", VInt(2)>>, <<"_binary_plus", VInt(3)>>,
        <<"y", VInt(4)>> >>}
LookupRuns ==
    {<<LookupScript(place, name), p, v, <<"lookup", place, name>> >> :
        place \in LookupPlaces, name \in LookupNames, p \in LookupPayloads,
        v \in LookupVars}

\* Headers of up to two declarations of a and b, whose expressions refer to
\* a, b and the caller variable x, with callers that supply x, b or nothing.
DeclaredNames == {"a", "b"}
DeclaredTexts == {"1", "a", "b", "x", "b + 1"}
DeclarationLines == {<<name, text>> : name \in DeclaredNames, text \in DeclaredTexts}
Headers ==
    {<<>>} \cup {<<d>> : d \in DeclarationLines}
    \cup {<<d, e>> : d \in DeclarationLines, e \in DeclarationLines}
HeaderText(declarations) ==
    JoinTexts([i \in 1..Len(declarations) |->
                  "var " \o declarations[i][1] \o " = " \o declarations[i][2] \o "\n"], "")
DeclarationBodies == {"[a, b]", "x"}
DeclarationVars == {<<>>, << <<"x", VInt(9)>> >>, << <<"b", VInt(8)>> >>}
DeclarationRuns ==
    {<<ScriptOf(HeaderText(h), body), VNull, v,
       <<"declare", [vars |-> v, declarations |-> h, body |-> body]>> >> :
        h \in Headers, body \in DeclarationBodies, v \in DeclarationVars}

\* Headers of three lines, each a directive, a comment, a declaration or blank.
HeaderLines == {"%dw 2.0", "%dw 1.0", "%dw", "output json", "// note", "var a = 1", ""}
HeaderRuns ==
    {<<JoinTexts(<<l1, l2, l3, "---", "1">>, "\n"), VNull, <<>>, <<"header", <<l1, l2, l3>> >> >> :
        l1 \in HeaderLines, l2 \in HeaderLines, l3 \in HeaderLines}

\* Sources put together as before \o "---" \o after, where `before` holds no
\* `---` and `after` may hold more of them: as code, in a string or in a
\* comment; and sources without any `---`.
BeforeTexts ==
    {"%dw 2.0\n", "%dw 2.0\nvar a = 1\n", "%dw 2.0\n// ", "%dw 2.0\n/*\n",
     "%dw 2.0\nvar s = '", ""}
AfterInStringOrComment == {"\n'a---b'", "\n1 // ---", "\n/* --- */ 1", "\n'a' ++ '---'"}
AfterAsCode == {"\n1\n---\n2", "-\n1", "\n1 ---- 2", "\n---\n1", " x\n---\n1"}
AfterTexts == {"\n1", "\n[1"} \cup AfterInStringOrComment \cup AfterAsCode
Unseparated == {"%dw 2.0\n1", "", "%dw 2.0\n-- -\n1"}
SeparatorRuns ==
    {<<b \o "---" \o a, VNull, <<>>, <<"separator", b, a>> >> :
        b \in BeforeTexts, a \in AfterTexts}
    \cup {<<s, VNull, <<>>, <<"unseparated", s, "">> >> : s \in Unseparated}

\* The sequence operators applied to a payload that is null, a list, an
\* object, a number, a boolean or a string.
CoercingOperators == {"map", "filter", "flatMap", "reduce", "distinctBy"}
CoercingScript(op) ==
    BodyOf("payload " \o op \o " " \o
           (CASE op = "filter" -> "(n) -> true"
              [] op = "flatMap" -> "(n) -> [n]"
              [] op = "reduce" -> "(n, acc) -> n"
              [] OTHER -> "(n) -> n"))
CoercedPayloads ==
    {VNull, VList(<<VInt(1), VInt(2)>>),
     VDict(<< <<"a", VInt(1)>>, <<"b", VStr("z")>> >>),
     VInt(5), VBool(TRUE), VStr("ab"), VStr("")}
CoercingRuns ==
    {<<CoercingScript(op), p, <<>>, <<"coerce", op>> >> :
        op \in CoercingOperators, p \in CoercedPayloads}

\* A match on 7 whose case binds n, with n read in the guard, in the case
\* expression, in the matcher of a later case, in the expression of a later
\* case, or after the match; the header declares n = 1 or nothing.
ScopePlaces == {"guard", "expression", "matcher", "later", "after"}
ScopeOuters == {"none", "header"}
ScopeBody(place) ==
    CASE place = "guard" -> "7 match { case var n when n == 7 -> 'in', else -> 'out' }"
      [] place = "expression" -> "7 match { case var n -> n }"
      [] place = "matcher" ->
            "7 match { case var n when false -> 0, case n -> 'bound', else -> 'other' }"
      [] place = "later" -> "7 match { case var n when false -> 0, else -> n }"
      [] place = "after" -> "[7 match { case var n -> n }, n]"
ScopeRuns ==
    {<<ScriptOf(IF outer = "header" THEN "var n = 1\n" ELSE "", ScopeBody(place)),
       VNull, <<>>, <<"scope", outer, place>> >> :
        outer \in ScopeOuters, place \in ScopePlaces}

\* Calls `callee(arguments)` of callees that are callable or not, with up to
\* two arguments, one of which may raise NameError.
Callables == {"((a, b) -> a)", "_binary_plus"}
NonCallables == {"5", "null", "'s'", "[1]"}
CallArguments == {"1", "missing", "[2, 3]"}
ArgumentLists ==
    {<<>>} \cup {<<a>> : a \in CallArguments}
    \cup {<<a, b>> : a \in CallArguments, b \in CallArguments}
CallRuns ==
    {<<BodyOf(callee \o "(" \o JoinTexts(arguments, ", ") \o ")"), VNull, <<>>,
       <<"call", [callee |-> callee, arguments |-> arguments]>> >> :
        callee \in Callables \cup NonCallables, arguments \in ArgumentLists}

\* `payload + x` and `payload * x` over operands that are null, numbers,
\* booleans, strings and lists, empty and not.
ArithmeticOperators == {"+", "*"}
ArithmeticOperands ==
    {VNull, VInt(0), VInt(3), VInt(-2), VBool(FALSE), VStr(""), VStr("ab"),
     VList(<<>>), VList(<<VInt(1)>>)}
ArithmeticRuns ==
    {<<BodyOf("payload " \o op \o " x"), l, << <<"x", r>> >>, <<"arith", op>> >> :
        op \in ArithmeticOperators, l \in ArithmeticOperands, r \in ArithmeticOperands}

\* `receiver?.a` and `receiver.a` for receivers that evaluate and receivers
\* that raise.
RaisingReceivers == {"missing", "5(1)", "((n) -> n)(1, 2)", "5.x"}
QuietReceivers == {"5", "'s'", "null", "payload", "(5?.x)"}
AccessOperators == {"?.", "."}
AccessRuns ==
    {<<BodyOf(receiver \o op \o "a"), VDict(<< <<"a", VInt(5)>> >>), <<>>,
       <<"access", receiver, op>> >> :
        receiver \in RaisingReceivers \cup QuietReceivers, op \in AccessOperators}

\* `var f = (n) -> <body that names f>`, called as f(0) and f(1), with f bound
\* nowhere else, supplied by the caller, or declared earlier in the header.
SelfReferences == {"f", "if (n == 0) 0 else f(0)"}
SelfOuters == {"none", "caller", "earlier"}
SelfArguments == {"0", "1"}
SelfRuns ==
    {<<ScriptOf((IF outer = "earlier" THEN "var f = (n) -> 7\n" ELSE "")
                 \o "var f = (n) -> " \o use \o "\n",
                "f(" \o argument \o ")"),
       VNull,
       IF outer = "caller" THEN << <<"f", VInt(9)>> >> ELSE <<>>,
       <<"self", [outer |-> outer, use |-> use, argument |-> argument]>> >> :
        outer \in SelfOuters, use \in SelfReferences, argument \in SelfArguments}

\* Direct calls of a lambda expression with fewer arguments than parameters,
\* with as many, and with more: (lambda)(5, 7, ..).  The lambdas put a
\* parameter without default after parameters with defaults that evaluate and
\* that raise.
ShortLambdas == {"(a, b) -> b", "(a = 1, b) -> [a, b]", "(a = missing, b) -> 1",
                 "(a, b = a, c) -> c", "(a, b, c = missing) -> b", "(a, b = 2) -> b"}
ShortCounts == 0..3
ShortRuns ==
    {<<BodyOf("(" \o f \o ")(" \o ArgumentsText(k) \o ")"), VNull, <<>>,
       <<"short", [lambda |-> f, count |-> k]>> >> :
        f \in ShortLambdas, k \in ShortCounts}

\* Object literals of two and three fields whose keys repeat: the keys are
\* names and quoted strings, the value of a field tells its position, and the
\* second value is one that evaluates or one that raises.
FieldKeys == {"a", "b", "'a'"}
FieldValues == <<"payload", "2", "[3]">>
SecondValues == {"2", "missing"}
FieldText(keys, second, i) ==
    keys[i] \o ": " \o (IF i = 2 THEN second ELSE FieldValues[i])
ObjectRuns ==
    {<<BodyOf("{" \o JoinTexts([i \in 1..Len(keys) |-> FieldText(keys, second, i)], ", ")
                  \o "}"),
       VInt(4), <<>>,
       <<"object", [keys |-> keys, second |-> second]>> >> :
        keys \in [1..2 -> FieldKeys] \cup [1..3 -> FieldKeys], second \in SecondValues}

\* The calls of execute: (script_source, payload, vars), and the fragments the
\* script was put together from.
Runs ==
    {<<s, p, v, <<>> >> : s \in Scripts, p \in Payloads, v \in CallerVars}
    \cup {<<BodyOf(ToChain(a, b, op, c)), p, <<>>, <<a, b, op, c>> >> :
             a \in ToLefts, b \in ToRights, op \in InfixNames, c \in InfixOperands,
             p \in ToChainPayloads}
    \cup LookupRuns
    \cup DeclarationRuns
    \cup HeaderRuns
    \cup SeparatorRuns
    \cup CoercingRuns
    \cup ScopeRuns
    \cup CallRuns
    \cup ArithmeticRuns
    \cup AccessRuns
    \cup SelfRuns
    \cup ShortRuns
    \cup ObjectRuns

Init ==
    /\ pc = "parse"
    /\ \E run \in Runs :
          /\ script_source = run[1]
          /\ payload = run[2]
          /\ variables = run[3]
          /\ fragments = run[4]
    /\ script = NotParsed
    /\ declIndex = 0
    /\ outcome = NotYet
    /\ evalLog = <<>>
    /\ built = <<>>
    /\ parsed = NotParsed
    /\ parser = NoParser

Next == ParseScript \/ EvaluateDeclaration \/ EvaluateBody

Spec == Init /\ [][Next]_vars

-----------------------------------------------------------------------------
(* parse_expression_from_source as a state machine of its own: one          *)
(* expression text, parsed in one step.                                     *)

\* The binary operators, as written.
BinaryOperators == {"+", "++", "--", "*", "==", "!=", ">", "<", ">=", "<=", "default"}

\* Primary expressions: a number, an identifier, a string, a list, a
\* parenthesised expression, a lambda in the legacy form (inside outer
\* parentheses) and a lambda in the simple form.
PlainPrimaries == {"1", "x", "'s'", "[1]", "(y)", "((m) -> m)"}
LambdaPrimaries == {"(n) -> n"}
Primaries == PlainPrimaries \cup LambdaPrimaries

\* a op1 b op2 c
TwoOperators(a, op1, b, op2, c) ==
    a \o " " \o op1 \o " " \o b \o " " \o op2 \o " " \o c

\* (a op1 b) op2 c
LeftNested(a, op1, b, op2, c) ==
    "(" \o a \o " " \o op1 \o " " \o b \o ") " \o op2 \o " " \o c

\* Postfix chains as operands.
PostfixChains == {"p.x", "p.x.y", "p?.x.y", "f(1)", "p[0]", "p.x(1)[0]"}

\* A complete expression followed by further tokens.
CompleteExpressions == {"1", "a + b", "f(1)", "[1]", "p.x.y", "(n) -> n", "(1"}
TrailingTexts == {" )", " ]", " 2", " 's'", " }", " ,", " -> 1", "\n  )", "\n\n]", ""}

\* The expression texts, each with the fragments it is put together from:
\* <<"binary", a, op1, b, op2, c>> for a op1 b op2 c, <<"postfix", a, op, chain>>
\* for a op chain, <<"trailing", expression, rest>>.
\* `a f b g c` for infix identifiers f and g other than `to`.
ChainedInfixNames == InfixNames \ {"to"}
InfixPrimaries == {"1", "x", "(y)"} \cup LambdaPrimaries
InfixChain(a, f, b, g, c) == a \o " " \o f \o " " \o b \o " " \o g \o " " \o c
\* Texts that raise ParseError, as the text before the offending token and
\* the text from it on, behind a lead of whitespace and comments.
ErrorCases ==
    {<<"unknown character", "1 + ", "# 2">>,
     <<"unterminated block comment", "1 + ", "/* open">>,
     <<"unexpected token", "1 + ", ") 2">>,
     <<"unexpected token", "1 *", "">>,
     <<"unexpected token", "", "]">>,
     <<"missing expected token", "f(1 ", "]">>,
     <<"missing expected token", "[1, 2", "">>,
     <<"missing expected token", "{a ", "1}">>,
     <<"missing expected token", "p.", "1">>,
     <<"missing else", "if (x) 1 ", "2">>,
     <<"missing else", "if (x) 1", "">>,
     <<"missing case", "x match { ", "1 -> 2 }">>,
     <<"empty match", "x match {", "}">>,
     <<"empty match", "x match {\n", "  }">>,
     <<"trailing tokens", "a + b", "\n\n]">>,
     <<"trailing tokens", "1", " 2">>}
ErrorLeads == {"", "\n", "/* c */ ", "// c\n  "}
ExpressionInputs ==
    {<<TwoOperators(a, op, b, op, c), <<"binary", a, op, b, op, c>> >> :
        a \in Primaries, b \in Primaries, c \in Primaries, op \in BinaryOperators}
    \cup {<<TwoOperators("a", op1, "b", op2, c), <<"binary", "a", op1, "b", op2, c>> >> :
             op1 \in BinaryOperators, op2 \in BinaryOperators, c \in {"c", "(z)"}}
    \cup {<<a \o " " \o op \o " " \o chain, <<"postfix", a, op, chain>> >> :
             a \in {"a", "1"}, op \in BinaryOperators, chain \in PostfixChains}
    \cup {<<e \o rest, <<"trailing", e, rest>> >> :
             e \in CompleteExpressions, rest \in TrailingTexts}
    \cup {<<InfixChain(a, f, b, g, c), <<"infix", a, f, b, g, c>> >> :
             a \in InfixPrimaries, b \in InfixPrimaries, c \in InfixPrimaries,
             f \in ChainedInfixNames, g \in ChainedInfixNames}
    \cup {<<lead \o case[2] \o case[3], <<"error", case[1], lead \o case[2], case[3]>> >> :
             lead \in ErrorLeads, case \in ErrorCases}

ParseInit ==
    /\ pc = "expression"
    /\ \E input \in ExpressionInputs :
          /\ script_source = input[1]
          /\ fragments = input[2]
    /\ payload = VNull
    /\ variables = <<>>
    /\ script = NotParsed
    /\ declIndex = 0
    /\ outcome = NotYet
    /\ evalLog = <<>>
    /\ built = <<>>
    /\ parsed = NotParsed
    /\ parser = NoParser

\* parse_expression_from_source(script_source)
ParseExpression ==
    /\ pc = "expression"
    /\ parsed' = parse_expression_from_source(script_source)
    /\ pc' = "parsed"
    /\ UNCHANGED <<script_source, payload, variables, script, declIndex, outcome,
                   evalLog, built, fragments, parser>>

ParseNext == ParseExpression

ParseSpec == ParseInit /\ [][ParseNext]_vars

-----------------------------------------------------------------------------
(* Tokenizer(source).tokens() as a state machine of its own: one step from  *)
(* a source text to the token list or the ParseError.                       *)

\* Sources put together as gap, lexeme, gap, lexeme, gap, where a gap is
\* whitespace or a comment and the middle gap is never empty.
Lexemes == {"a", "'s\nt'", "1.5", "--", "default"}
LeadingGaps == {"", "\n ", "/* x\ny */"}
InnerGaps == {" ", "\n", "\n\n  ", "// c\n", "/* x\ny */"}
TrailingGaps == {"", "\n", "// end", "/* open"}
LexInputs ==
    {<<g0 \o t1 \o g1 \o t2 \o g2, <<"lex", g0, t1, g1, t2, g2>> >> :
        g0 \in LeadingGaps, t1 \in Lexemes, g1 \in InnerGaps, t2 \in Lexemes,
        g2 \in TrailingGaps}

LexInit ==
    /\ pc = "source"
    /\ \E input \in LexInputs :
          /\ script_source = input[1]
          /\ fragments = input[2]
    /\ payload = VNull
    /\ variables = <<>>
    /\ script = NotParsed
    /\ declIndex = 0
    /\ outcome = NotYet
    /\ evalLog = <<>>
    /\ built = <<>>
    /\ parsed = NotParsed
    /\ parser = NoParser

\* tokens = Tokenizer(source).tokens()
Tokenize ==
    /\ pc = "source"
    /\ parsed' = Tokenizer_tokens(script_source)
    /\ pc' = "tokens"
    /\ UNCHANGED <<script_source, payload, variables, script, declIndex, outcome,
                   evalLog, built, fragments, parser>>

LexNext == Tokenize

LexSpec == LexInit /\ [][LexNext]_vars

-----------------------------------------------------------------------------
(* The parser step by step, parser.py class Parser.  A call of a method is  *)
(* a frame: the method, the place in it the call is at, the cursor at the   *)
(* time of the call, and for a loop the cursor at the head of the current   *)
(* and of the previous iteration.  The nodes the methods build do not       *)
(* steer them and are left out; what a frame does next is told by an        *)
(* effect: call a method and go on at a place, go on at a place, return,    *)
(* return None, raise ParseError.                                           *)

Frame(fn, index) ==
    [fn |-> fn, at |-> "start", saved |-> index, head |-> -1, prev |-> -1,
     cases |-> 0, restored |-> 0]

Calls(fn, at, index) == [op |-> "call", fn |-> fn, at |-> at, index |-> index, note |-> ""]
Continues(at, index) == [op |-> "continue", fn |-> "", at |-> at, index |-> index, note |-> ""]
Returns(index) == [op |-> "return", fn |-> "", at |-> "", index |-> index, note |-> ""]
ReturnsNone(index) == [op |-> "none", fn |-> "", at |-> "", index |-> index, note |-> ""]
Raises(index) == [op |-> "raise", fn |-> "", at |-> "", index |-> index, note |-> ""]
Noting(effect, note) == [effect EXCEPT !.note = note]

\* self.expect(kind), and then what the place of the cursor after it tells:
\* a failed expect raises out of the method.
\* The places of the cursor.
Cursors(toks) == 0..(Len(toks) - 1)

Expecting(toks, index, kind, then) ==
    LET token == expect(toks, index, kind)
    IN IF ~token.ok THEN Raises(token.index) ELSE then[token.index]

\* self.current() is the IDENT with this text.
IsWord(toks, index, word) ==
    TokKind(current(toks, index)) = "IDENT" /\ TokText(current(toks, index)) = word

parse_expression_eof_at(frame, signal, toks, index) ==
    CASE frame.at = "start" -> Calls("parse_expression", "check", index)
      [] frame.at = "check" ->
           IF TokKind(current(toks, index)) # "EOF" THEN Raises(index) ELSE Returns(index)

parse_expression_at(frame, signal, toks, index) ==
    CASE frame.at = "start" -> Calls("parse_if_expression", "return", index)
      [] frame.at = "return" -> Returns(index)

parse_if_expression_at(frame, signal, toks, index) ==
    CASE frame.at = "start" ->
           IF IsWord(toks, index, "if")
           THEN Expecting(toks, advance(toks, index), "LPAREN",
                          [i \in Cursors(toks) |-> Calls("parse_expression", "condition", i)])
           ELSE Calls("parse_default", "return", index)
      [] frame.at = "condition" ->
           Expecting(toks, index, "RPAREN",
                     [i \in Cursors(toks) |-> Calls("parse_expression", "when_true", i)])
      [] frame.at = "when_true" ->
           IF ~IsWord(toks, index, "else") THEN Raises(index)
           ELSE Calls("parse_expression", "return", advance(toks, index))
      [] frame.at = "return" -> Returns(index)

\* A level of binary operators: an operand, then while the current token is
\* one of the operators, advance and another operand.
binary_level_at(frame, toks, index, operators, operand) ==
    CASE frame.at = "start" -> Calls(operand, "loop", index)
      [] frame.at = "loop" ->
           IF TokKind(current(toks, index)) \in operators
           THEN Calls(operand, "loop", advance(toks, index))
           ELSE Returns(index)

parse_default_at(frame, signal, toks, index) ==
    binary_level_at(frame, toks, index, {"DEFAULT"}, "parse_comparison")

parse_comparison_at(frame, signal, toks, index) ==
    binary_level_at(frame, toks, index, {"EQ", "NEQ", "GT", "LT", "GTE", "LTE"},
                    "parse_additive")

parse_additive_at(frame, signal, toks, index) ==
    binary_level_at(frame, toks, index, {"PLUS", "CONCAT", "DIFF"}, "parse_multiplicative")

parse_multiplicative_at(frame, signal, toks, index) ==
    binary_level_at(frame, toks, index, {"STAR"}, "parse_postfix")

\* parse_postfix, and parse_postfix_no_infix, which lacks the branches of the
\* infix name and of match.
postfix_at(frame, toks, index, infix) ==
    LET token_type == TokKind(current(toks, index))
        token_value == TokText(current(toks, index))
    IN CASE frame.at = "start" -> Calls("parse_primary", "loop", index)
         [] frame.at = "loop" ->
              CASE token_type \in {"DOT", "SAFE_DOT"} ->
                     Expecting(toks, advance(toks, index), "IDENT",
                               [i \in Cursors(toks) |-> Continues("loop", i)])
                [] token_type = "LPAREN" -> Calls("parse_call", "loop", index)
                [] infix /\ token_type = "IDENT" /\ token_value \notin RESERVED_INFIX_STOP ->
                     Calls(IF token_value = "to" THEN "parse_postfix_no_infix"
                           ELSE "parse_postfix",
                           "loop", advance(toks, index))
                [] token_type = "LBRACKET" ->
                     Calls("parse_expression", "index", advance(toks, index))
                [] infix /\ token_type = "IDENT" /\ token_value = "match" ->
                     Calls("parse_match_expression", "loop", advance(toks, index))
                [] OTHER -> Returns(index)
         [] frame.at = "index" ->
              Expecting(toks, index, "RBRACKET", [i \in Cursors(toks) |-> Continues("loop", i)])

parse_postfix_at(frame, signal, toks, index) == postfix_at(frame, toks, index, TRUE)

parse_postfix_no_infix_at(frame, signal, toks, index) ==
    postfix_at(frame, toks, index, FALSE)

\* parse_call and parse_list: the opening token, then unless the closing one
\* follows, expressions separated by commas up to the closing one.
sequence_at(frame, toks, index, opening, closing) ==
    CASE frame.at = "start" ->
           Expecting(toks, index, opening,
                     [i \in Cursors(toks) |-> IF match(toks, i, closing).matched
                                THEN Returns(match(toks, i, closing).index)
                                ELSE Continues("loop", i)])
      [] frame.at = "loop" -> Calls("parse_expression", "element", index)
      [] frame.at = "element" ->
           IF match(toks, index, closing).matched
           THEN Returns(match(toks, index, closing).index)
           ELSE Expecting(toks, index, "COMMA", [i \in Cursors(toks) |-> Continues("loop", i)])

parse_call_at(frame, signal, toks, index) ==
    sequence_at(frame, toks, index, "LPAREN", "RPAREN")

parse_list_at(frame, signal, toks, index) ==
    sequence_at(frame, toks, index, "LBRACKET", "RBRACKET")

parse_object_at(frame, signal, toks, index) ==
    CASE frame.at = "start" ->
           Expecting(toks, index, "LBRACE",
                     [i \in Cursors(toks) |-> IF match(toks, i, "RBRACE").matched
                                THEN Returns(match(toks, i, "RBRACE").index)
                                ELSE Continues("loop", i)])
      [] frame.at = "loop" ->
           IF TokKind(current(toks, index)) = "STRING"
           THEN Expecting(toks, advance(toks, index), "COLON",
                          [i \in Cursors(toks) |-> Calls("parse_expression", "value", i)])
           ELSE Expecting(toks, index, "IDENT",
                          [k \in Cursors(toks) |-> Expecting(toks, k, "COLON",
                              [i \in Cursors(toks) |-> Calls("parse_expression", "value", i)])])
      [] frame.at = "value" ->
           IF match(toks, index, "RBRACE").matched
           THEN Returns(match(toks, index, "RBRACE").index)
           ELSE Expecting(toks, index, "COMMA", [i \in Cursors(toks) |-> Continues("loop", i)])

parse_match_expression_at(frame, signal, toks, index) ==
    CASE frame.at = "start" ->
           Expecting(toks, index, "LBRACE", [i \in Cursors(toks) |-> Continues("loop", i)])
      [] frame.at = "loop" ->
           IF match(toks, index, "RBRACE").matched
           THEN IF frame.cases = 0 THEN Raises(match(toks, index, "RBRACE").index)
                ELSE Returns(match(toks, index, "RBRACE").index)
           ELSE IF IsWord(toks, index, "case")
           THEN Calls("_parse_match_pattern", "pattern", advance(toks, index))
           ELSE IF IsWord(toks, index, "else")
           THEN Expecting(toks, advance(toks, index), "ARROW",
                          [i \in Cursors(toks) |-> Calls("parse_expression", "case", i)])
           ELSE Raises(index)
      [] frame.at = "pattern" ->
           Expecting(toks, index, "ARROW", [i \in Cursors(toks) |-> Calls("parse_expression", "case", i)])
      [] frame.at = "case" ->
           Noting(Continues("loop", match(toks, index, "COMMA").index), "case")

_parse_match_pattern_at(frame, signal, toks, index) ==
    CASE frame.at = "start" ->
           IF IsWord(toks, index, "var")
           THEN Expecting(toks, advance(toks, index), "IDENT",
                          [i \in Cursors(toks) |-> Continues("guard", i)])
           ELSE Calls("parse_expression", "guard", index)
      [] frame.at = "guard" ->
           IF IsWord(toks, index, "when")
           THEN Calls("parse_expression", "return", advance(toks, index))
           ELSE Returns(index)
      [] frame.at = "return" -> Returns(index)

\* The try blocks of _maybe_parse_lambda_expression: a ParseError of the
\* simple form sets the cursor back and tries the legacy form, a ParseError of
\* the legacy form sets the cursor back and returns None.
_maybe_parse_lambda_expression_at_no_restore(frame, signal, toks, index) ==
    CASE frame.at = "start" -> Calls("_parse_lambda_expression_simple", "simple", index)
      [] frame.at = "simple" ->
           IF signal # "raise" THEN Returns(index)
           ELSE Noting(Calls("_parse_lambda_expression_legacy", "legacy", index),
                       "restore")
      [] frame.at = "legacy" ->
           IF signal # "raise" THEN Returns(index)
           ELSE Noting(ReturnsNone(index), "restore")

_maybe_parse_lambda_expression_at(frame, signal, toks, index) ==
    CASE frame.at = "start" -> Calls("_parse_lambda_expression_simple", "simple", index)
      [] frame.at = "simple" ->
           IF signal # "raise" THEN Returns(index)
           ELSE Noting(Calls("_parse_lambda_expression_legacy", "legacy", frame.saved),
                       "restore")
      [] frame.at = "legacy" ->
           IF signal # "raise" THEN Returns(index)
           ELSE Noting(ReturnsNone(frame.saved), "restore")

\* The parameters between the parentheses, of both forms of lambda: names
\* with optional defaults separated by commas, up to the closing parenthesis.
parameters_at(frame, toks, index, after) ==
    CASE frame.at = "loop" ->
           Expecting(toks, index, "IDENT",
                     [i \in Cursors(toks) |-> IF match(toks, i, "EQUAL").matched
                                THEN Calls("parse_expression", "parameter",
                                           match(toks, i, "EQUAL").index)
                                ELSE Continues("parameter", i)])
      [] frame.at = "parameter" ->
           IF match(toks, index, "COMMA").matched
           THEN Continues("loop", match(toks, index, "COMMA").index)
           ELSE Expecting(toks, index, "RPAREN", after)

_parse_lambda_expression_simple_at(frame, signal, toks, index) ==
    CASE frame.at = "start" ->
           Expecting(toks, index, "LPAREN",
                     [i \in Cursors(toks) |-> IF match(toks, i, "RPAREN").matched
                                THEN Continues("arrow", match(toks, i, "RPAREN").index)
                                ELSE Continues("loop", i)])
      [] frame.at \in {"loop", "parameter"} ->
           parameters_at(frame, toks, index, [i \in Cursors(toks) |-> Continues("arrow", i)])
      [] frame.at = "arrow" ->
           Expecting(toks, index, "ARROW", [i \in Cursors(toks) |-> Calls("parse_expression", "return", i)])
      [] frame.at = "return" -> Returns(index)

_parse_parameter_list_at(frame, signal, toks, index) ==
    CASE frame.at = "start" ->
           Expecting(toks, index, "LPAREN",
                     [i \in Cursors(toks) |-> IF match(toks, i, "RPAREN").matched
                                THEN Returns(match(toks, i, "RPAREN").index)
                                ELSE Continues("loop", i)])
      [] frame.at \in {"loop", "parameter"} ->
           parameters_at(frame, toks, index, [i \in Cursors(toks) |-> Returns(i)])

_parse_lambda_expression_legacy_at(frame, signal, toks, index) ==
    CASE frame.at = "start" ->
           Expecting(toks, index, "LPAREN",
                     [i \in Cursors(toks) |-> Calls("_parse_parameter_list", "arrow", i)])
      [] frame.at = "arrow" ->
           Expecting(toks, index, "ARROW", [i \in Cursors(toks) |-> Calls("parse_expression", "body", i)])
      [] frame.at = "body" -> Expecting(toks, index, "RPAREN", [i \in Cursors(toks) |-> Returns(i)])

parse_primary_at(frame, signal, toks, index) ==
    LET token_type == TokKind(current(toks, index))
    IN CASE frame.at = "start" ->
              CASE token_type = "LBRACE" -> Calls("parse_object", "return", index)
                [] token_type = "LBRACKET" -> Calls("parse_list", "return", index)
                [] token_type \in {"STRING", "NUMBER", "BOOLEAN", "NULL", "IDENT"} ->
                     Returns(advance(toks, index))
                [] token_type = "LPAREN" ->
                     Calls("_maybe_parse_lambda_expression", "lambda", index)
                [] OTHER -> Raises(index)
         [] frame.at = "lambda" ->
              IF signal # "none" THEN Returns(index)
              ELSE Calls("parse_expression", "group", advance(toks, index))
         [] frame.at = "group" -> Expecting(toks, index, "RPAREN", [i \in Cursors(toks) |-> Returns(i)])
         [] frame.at = "return" -> Returns(index)

\* What the method of a frame does next, resumed with the signal of what it
\* called.
Resume(frame, signal, toks, index) ==
    CASE frame.fn = "parse_expression_eof" -> parse_expression_eof_at(frame, signal, toks, index)
      [] frame.fn = "parse_expression" -> parse_expression_at(frame, signal, toks, index)
      [] frame.fn = "parse_if_expression" -> parse_if_expression_at(frame, signal, toks, index)
      [] frame.fn = "parse_default" -> parse_default_at(frame, signal, toks, index)
      [] frame.fn = "parse_comparison" -> parse_comparison_at(frame, signal, toks, index)
      [] frame.fn = "parse_additive" -> parse_additive_at(frame, signal, toks, index)
      [] frame.fn = "parse_multiplicative" ->
           parse_multiplicative_at(frame, signal, toks, index)
      [] frame.fn = "parse_postfix" -> parse_postfix_at(frame, signal, toks, index)
      [] frame.fn = "parse_postfix_no_infix" ->
           parse_postfix_no_infix_at(frame, signal, toks, index)
      [] frame.fn = "parse_call" -> parse_call_at(frame, signal, toks, index)
      [] frame.fn = "parse_list" -> parse_list_at(frame, signal, toks, index)
      [] frame.fn = "parse_object" -> parse_object_at(frame, signal, toks, index)
      [] frame.fn = "parse_match_expression" ->
           parse_match_expression_at(frame, signal, toks, index)
      [] frame.fn = "_parse_match_pattern" ->
           _parse_match_pattern_at(frame, signal, toks, index)
      [] frame.fn = "_maybe_parse_lambda_expression" ->
           _maybe_parse_lambda_expression_at(frame, signal, toks, index)
      [] frame.fn = "_parse_lambda_expression_simple" ->
           _parse_lambda_expression_simple_at(frame, signal, toks, index)
      [] frame.fn = "_parse_lambda_expression_legacy" ->
           _parse_lambda_expression_legacy_at(frame, signal, toks, index)
      [] frame.fn = "_parse_parameter_list" ->
           _parse_parameter_list_at(frame, signal, toks, index)
      [] frame.fn = "parse_primary" -> parse_primary_at(frame, signal, toks, index)

\* A frame inside a try block that catches ParseError.
Catches(frame) ==
    frame.fn = "_maybe_parse_lambda_expression" /\ frame.at \in {"simple", "legacy"}

\* The token lists handed to Parser: every list of up to three tokens of the
\* kinds below, and the tokens of expression texts, each ending with EOF.
TokenSymbols ==
    {<<"LPAREN", "(">>, <<"RPAREN", ")">>, <<"IDENT", "x">>, <<"ARROW", "->">>,
     <<"COMMA", ",">>, <<"EQUAL", "=">>, <<"LBRACKET", "[">>, <<"RBRACKET", "]">>,
     <<"LBRACE", "{">>, <<"RBRACE", "}">>, <<"NUMBER", "1">>, <<"PLUS", "+">>,
     <<"DOT", ".">>, <<"COLON", ":">>}
TokenLengths == 0..3
TokensOf(symbols) ==
    [i \in 1..(Len(symbols) + 1) |->
        IF i <= Len(symbols) THEN <<symbols[i][1], symbols[i][2], 1, i>>
        ELSE <<"EOF", "", 1, i>>]
ParserTexts ==
    {"(a, b = 1) -> a + b", "((a) -> a)", "((a, b) -> a)(1)", "((1))", "((((a))))",
     "(a = (b = 1))", "((a = (b) -> b) -> a)", "(((a) -> a) -> a)", "(a, b)",
     "((a = ((b)) -> 1) -> 2", "(a = 1, b) -> [a, b]", "() -> 1", "(() -> 1)",
     "x match { case 1 -> 2, else -> 3 }", "x match { case var n when n > 1 -> n else -> 0 }",
     "x match { }", "x match { case 1 -> 2", "x match { 1 -> 2 }", "x match { case var -> 1 }",
     "if (a) b else c", "if (a) b", "if a b", "a default b default c", "a.b?.c[0](1, 2)",
     "[1, [2, 3], {a: 1, 'b': [x]}]", "{a: 1, a: 2", "{1: 2}", "a map (i) -> i to 3",
     "1 to 3 map ((i) -> i * 2)", "a == b != c", "a ++ b -- c * d", "f(1,", "f(1 2)",
     "a[1", "a.1", "true default null", "a reduce (item, acc = 0) -> acc + item"}
TokenLists ==
    {TokensOf(symbols) : symbols \in UNION {[1..n -> TokenSymbols] : n \in TokenLengths}}
    \cup {Tokenizer_tokens(text).tokens : text \in {t \in ParserTexts : Tokenizer_tokens(t).ok}}

\* Parser(tokens), and parse_expression_eof called on it.
StepInit ==
    /\ pc = "parsing"
    /\ \E toks \in TokenLists :
          parser = [tokens |-> toks, index |-> 0,
                    stack |-> <<Frame("parse_expression_eof", 0)>>, signal |-> "run",
                    restores |-> 0]
    /\ script_source = ""
    /\ fragments = <<"tokens">>
    /\ payload = VNull
    /\ variables = <<>>
    /\ script = NotParsed
    /\ declIndex = 0
    /\ outcome = NotYet
    /\ evalLog = <<>>
    /\ built = <<>>
    /\ parsed = NotParsed

\* The frame a step leaves behind: at the head of a loop it records the
\* cursor of this iteration and of the one before; a case appended and a
\* cursor set back are counted.
Stepped(frame, index, effect) ==
    [frame EXCEPT !.at = IF effect.op \in {"call", "continue"} THEN effect.at ELSE @,
                  !.prev = IF frame.at = "loop" THEN frame.head ELSE @,
                  !.head = IF frame.at = "loop" THEN index ELSE @,
                  !.cases = IF effect.note = "case" THEN @ + 1 ELSE @,
                  !.restored = IF effect.note = "restore" THEN @ + 1 ELSE @]

\* One step of the innermost call: it runs to its next call, return or
\* raise; a ParseError passes through a frame that does not catch it.
ParserStep ==
    /\ pc = "parsing"
    /\ parser.stack # <<>>
    /\ \E frame \in {parser.stack[Len(parser.stack)]} :
       \E effect \in {IF parser.signal = "raise" /\ ~Catches(frame)
                      THEN Raises(parser.index)
                      ELSE Resume(frame, parser.signal, parser.tokens, parser.index)} :
       \E below \in {SubSeq(parser.stack, 1, Len(parser.stack) - 1)} :
          /\ parser' =
                [tokens |-> parser.tokens,
                 index |-> effect.index,
                 stack |-> CASE effect.op = "call" ->
                                  below \o <<Stepped(frame, parser.index, effect),
                                             Frame(effect.fn, effect.index)>>
                             [] effect.op = "continue" ->
                                  Append(below, Stepped(frame, parser.index, effect))
                             [] OTHER -> below,
                 signal |-> IF effect.op \in {"call", "continue"} THEN "run" ELSE effect.op,
                 restores |-> parser.restores + (IF effect.note = "restore" THEN 1 ELSE 0)]
          /\ pc' = IF effect.op \notin {"call", "continue"} /\ below = <<>>
                   THEN "parsed" ELSE "parsing"
    /\ UNCHANGED <<script_source, payload, variables, script, declIndex, outcome,
                   evalLog, built, parsed, fragments>>

StepNext == ParserStep

StepSpec == StepInit /\ [][StepNext]_vars

\* The interpreter runs the parser on: its step is taken whenever it can be.
FairStepSpec == StepSpec /\ WF_vars(StepNext)

-----------------------------------------------------------------------------
(* Program positions.  A position is the number of its root (0 for the     *)
(* body, k for header declaration k) followed by one child number per      *)
(* step, as _evaluate numbers the nodes it walks.                           *)

ChildOf(node, i) ==
    CASE node.type = "DefaultOp" -> IF i = 1 THEN node.left ELSE node.right
      [] node.type = "FunctionCall" -> IF i = 0 THEN node.function ELSE node.arguments[i]
      [] node.type = "PropertyAccess" -> node.value
      [] node.type = "IndexAccess" -> IF i = 1 THEN node.value ELSE node.index
      [] node.type = "IfExpression" ->
           IF i = 1 THEN node.condition ELSE IF i = 2 THEN node.when_true
           ELSE node.when_false
      [] node.type = "MatchExpression" ->
           IF i = 0 THEN node.value ELSE [type |-> "MatchCase", case |-> node.cases[i]]
      [] node.type = "MatchCase" ->
           IF i = 1 THEN node.case.pattern.matcher
           ELSE IF i = 2 THEN node.case.pattern.guard ELSE node.case.expression
      [] node.type = "LambdaExpression" ->
           IF i = 0 THEN node.body ELSE node.parameters[i].default
      [] node.type = "ListLiteral" -> node.elements[i]
      [] node.type = "ObjectLiteral" -> node.fields[i][2]

RECURSIVE NodeAt(_, _)
NodeAt(node, path) ==
    IF path = <<>> THEN node ELSE NodeAt(ChildOf(node, Head(path)), Tail(path))

ProgramNode(p) ==
    NodeAt(IF Head(p) = 0 THEN script.expr.body
           ELSE script.expr.header.variables[Head(p)].expression, Tail(p))

\* How many times _evaluate was invoked on position p.
Count(log, p) == Cardinality({i \in 1..Len(log) : log[i] = p})

\* No lambda and no match case lies strictly above p: p is evaluated in the
\* context of its root.
InRootContext(p) ==
    \A n \in 1..(Len(p) - 1) :
        ProgramNode(SubSeq(p, 1, n)).type \notin {"LambdaExpression", "MatchCase"}

\* execute got as far as the body, and the body was evaluated.
BodyEvaluated ==
    pc = "done" /\ script.ok /\ declIndex > Len(script.expr.header.variables)

\* The context execute evaluates the body in.
BodyContext == EvaluationContext(payload, variables, TRUE, variables)

SameResult(a, b) == a.ok = b.ok /\ a.value = b.value /\ a.err = b.err

-----------------------------------------------------------------------------
(* Claims.                                                                  *)

\* C1: evaluating DefaultOp(l, r) evaluates l exactly once; r is evaluated
\* exactly once when the value of l is null and never when it is non-null
\* (false, 0 and the empty string are not missing); the result is the value
\* of r when l is null and the value of l otherwise.  Stated on every
\* DefaultOp position of the body that is evaluated once in the body's
\* context, with the result observed on the body itself.
C1_DefaultOpShortCircuits ==
    BodyEvaluated =>
        /\ \A i \in 1..Len(evalLog) :
              LET p == evalLog[i]
                  l == _evaluate(ProgramNode(p).left, BodyContext, Append(p, 1))
              IN /\ ProgramNode(p).type = "DefaultOp"
                 => /\ Count(evalLog, Append(p, 1)) = Count(evalLog, p)
                    /\ (Head(p) = 0 /\ InRootContext(p) /\ Count(evalLog, p) = 1)
                       => Count(evalLog, Append(p, 2)) =
                             IF l.ok /\ l.value = VNull THEN 1 ELSE 0
        /\ script.expr.body.type = "DefaultOp" =>
              LET l == _evaluate(script.expr.body.left, BodyContext, <<0, 1>>)
                  r == _evaluate(script.expr.body.right, BodyContext, <<0, 2>>)
              IN /\ (l.ok /\ l.value = VNull) => SameResult(outcome, r)
                 /\ (l.ok /\ l.value # VNull) => SameResult(outcome, l)

\* C1 witness: `payload default 0 default missing` on a null payload: the inner
\* right operand was evaluated once and gave 0, so the outer right operand
\* (an unknown identifier) was never evaluated.
C1_Witness ==
    /\ BodyEvaluated
    /\ script.expr.body.type = "DefaultOp"
    /\ script.expr.body.left.type = "DefaultOp"
    /\ payload = VNull
    /\ Count(evalLog, <<0, 1, 1>>) = 1
    /\ Count(evalLog, <<0, 1, 2>>) = 1
    /\ Count(evalLog, <<0, 2>>) = 0
    /\ outcome.ok /\ outcome.value = VInt(0)

\* C2: a lambda captures a by-value snapshot of the variable environment when
\* it is constructed: whatever is bound or rebound in the outer environment
\* afterwards (a later header `var`), a later call of the lambda yields what a
\* call yielded when it was constructed.  Stated on every lambda a header
\* declaration built, called with no arguments in every later state.
C2_ClosureIsSnapshot ==
    \A i \in 1..Len(built) :
        SameResult(Call(built[i].lambda, <<>>, variables), built[i].result)

\* The receiver of the property access the body consists of, as evaluated.
BodyReceiver == _evaluate(script.expr.body.value, BodyContext, <<0, 1>>)

BodyIsPropertyAccess == BodyEvaluated /\ script.expr.body.type = "PropertyAccess"

\* C3 as the spec states it: property access on a null receiver evaluates to
\* null with the null-safe operator and raises TypeError with the plain dot.
C3_NullReceiverAsStated ==
    (BodyIsPropertyAccess /\ BodyReceiver.ok /\ BodyReceiver.value = VNull) =>
        IF script.expr.body.null_safe
        THEN outcome.ok /\ outcome.value = VNull
        ELSE ~outcome.ok /\ outcome.err.kind = "TypeError"

\* C3 amended: property access on a null receiver evaluates to null with the
\* null-safe operator and with the plain dot alike; the plain dot raises
\* TypeError only on a receiver that is neither null nor an object and has no
\* such attribute, and there the null-safe operator yields null.
C3_NullReceiverYieldsNull ==
    (BodyIsPropertyAccess /\ BodyReceiver.ok) =>
        LET base == Deref(BodyReceiver.value, variables)
        IN /\ base = VNull => outcome.ok /\ outcome.value = VNull
           /\ (base.t \notin {"null", "dict"} /\ ~hasattr(base, script.expr.body.attribute))
              => IF script.expr.body.null_safe
                 THEN outcome.ok /\ outcome.value = VNull
                 ELSE ~outcome.ok /\ outcome.err.kind = "TypeError"

\* C3 witness: a plain-dot access whose receiver evaluated to null returned null.
C3_Witness ==
    /\ BodyIsPropertyAccess
    /\ ~script.expr.body.null_safe
    /\ BodyReceiver.ok /\ BodyReceiver.value = VNull
    /\ outcome.ok /\ outcome.value = VNull

\* The body is a lambda expression applied to arguments: (lambda)(arguments).
BodyIsLambdaCall ==
    /\ BodyEvaluated
    /\ script.expr.body.type = "FunctionCall"
    /\ script.expr.body.function.type = "LambdaExpression"

CalledParameters == script.expr.body.function.parameters
ArgumentValue(i) == _evaluate(script.expr.body.arguments[i], BodyContext, <<0, i>>)
ArgumentsEvaluate ==
    \A i \in 1..Len(script.expr.body.arguments) : ArgumentValue(i).ok

\* The local variables after the first i parameters are bound as the claim
\* says: to the arguments in order, then to the values of the defaults.
RECURSIVE ExpectedLocals(_)
ExpectedLocals(i) ==
    IF i = 0 THEN variables
    ELSE DictSet(ExpectedLocals(i - 1), CalledParameters[i].name,
                 IF i <= Len(script.expr.body.arguments) THEN ArgumentValue(i).value
                 ELSE _evaluate(CalledParameters[i].default,
                                EvaluationContext(payload, ExpectedLocals(i - 1), FALSE,
                                                  variables),
                                <<0, 0, i>>).value)

HasDefault(i) == CalledParameters[i].default # PyNone
DefaultEvaluates(i) ==
    _evaluate(CalledParameters[i].default,
              EvaluationContext(payload, ExpectedLocals(i - 1), FALSE, variables),
              <<0, 0, i>>).ok

TooManyArguments ==
    /\ ~outcome.ok /\ outcome.err.kind = "TypeError"
    /\ \A i \in 0..Len(CalledParameters) : Count(evalLog, <<0, 0, i>>) = 0

BodyRunsOnExpectedLocals ==
    /\ \A i \in 1..Len(CalledParameters) :
          Count(evalLog, <<0, 0, i>>) =
              IF i <= Len(script.expr.body.arguments) THEN 0 ELSE 1
    /\ Count(evalLog, <<0, 0, 0>>) = 1
    /\ SameResult(outcome,
                  _evaluate(script.expr.body.function.body,
                            EvaluationContext(payload,
                                              ExpectedLocals(Len(CalledParameters)),
                                              FALSE, variables),
                            <<0, 0, 0>>))

ArityExample ==
    /\ script_source = BodyOf("((a, b = 10) -> a + b)(5)")
       => outcome.ok /\ outcome.value = VInt(15)
    /\ script_source = BodyOf("((a, b = 10) -> a + b)(5, 7)")
       => outcome.ok /\ outcome.value = VInt(12)
    /\ script_source = BodyOf("((a, b = 10) -> a + b)(5, 7, 8)")
       => ~outcome.ok /\ outcome.err.kind = "TypeError"

\* C4 as the spec states it: with k > n arguments a TypeError is raised and
\* neither a default nor the body is evaluated; with k <= n the first k
\* parameters are bound to the arguments, each remaining parameter to the
\* value of its default, and then the body is evaluated.
C4_ArityAsStated ==
    (BodyIsLambdaCall /\ ArgumentsEvaluate) =>
        LET n == Len(CalledParameters)
            k == Len(script.expr.body.arguments)
        IN /\ k > n => TooManyArguments
           /\ (k <= n /\ \A i \in (k + 1)..n : HasDefault(i) => DefaultEvaluates(i))
              => Count(evalLog, <<0, 0, 0>>) = 1

\* C4 amended: with k > n arguments a TypeError is raised and neither a
\* default nor the body is evaluated.  With k <= n the first k parameters are
\* bound to the arguments in order; when every remaining parameter has a
\* default, each is bound to the value of its default (evaluated once, in the
\* environment extended with the parameters bound before it) and the body is
\* evaluated once; when a remaining parameter has no default a TypeError is
\* raised and the body is not evaluated.  `(a, b = 10) -> a + b` yields 15
\* for (5), 12 for (5, 7) and TypeError for three arguments.
C4_LambdaArity ==
    /\ (BodyIsLambdaCall /\ ArgumentsEvaluate) =>
          LET n == Len(CalledParameters)
              k == Len(script.expr.body.arguments)
              undefaulted == {i \in (k + 1)..n : ~HasDefault(i)}
          IN /\ k > n => TooManyArguments
             /\ (k <= n /\ \A i \in (k + 1)..n : HasDefault(i) /\ DefaultEvaluates(i))
                => BodyRunsOnExpectedLocals
             /\ (k <= n /\ undefaulted # {}
                 /\ \A i \in (k + 1)..n :
                       (\A j \in undefaulted : i < j) => DefaultEvaluates(i))
                => /\ ~outcome.ok /\ outcome.err.kind = "TypeError"
                   /\ Count(evalLog, <<0, 0, 0>>) = 0
    /\ pc = "done" => ArityExample

\* C4 witness: `(a, b = 10) -> a + b` called with (5): the default of b was
\* evaluated once, the body once, and the call yielded 15.
C4_Witness ==
    /\ BodyIsLambdaCall
    /\ script_source = BodyOf("((a, b = 10) -> a + b)(5)")
    /\ Count(evalLog, <<0, 0, 2>>) = 1
    /\ Count(evalLog, <<0, 0, 0>>) = 1
    /\ outcome.ok /\ outcome.value = VInt(15)

\* The body is `sequence reduce (parameters) -> body`.
BodyIsReduce ==
    /\ BodyEvaluated
    /\ script.expr.body.type = "FunctionCall"
    /\ script.expr.body.function = Identifier("_infix_reduce")
    /\ script.expr.body.arguments[2].type = "LambdaExpression"

ReducedSequence == _evaluate(script.expr.body.arguments[1], BodyContext, <<0, 1>>)
Reducer == _evaluate(script.expr.body.arguments[2], BodyContext, <<0, 2>>).value

\* The accumulator after the first i items as the claim gives it: f(x1)
\* called with one argument, then f(xi, acc) when f declares more than one
\* parameter and f(xi) otherwise; a raised exception ends the reduction.
RECURSIVE ReduceExpected(_, _)
ReduceExpected(items, i) ==
    IF i = 1 THEN invoke_lambda(Reducer, <<items[1]>>, variables)
    ELSE LET acc == ReduceExpected(items, i - 1)
         IN IF ~acc.ok THEN acc
            ELSE IF Len(Reducer.v.parameters) > 1
            THEN Call(Reducer, <<items[i], acc.value>>, variables)
            ELSE Call(Reducer, <<items[i]>>, variables)

ReduceExample ==
    /\ script_source = BodyOf("[1, 2, 3] reduce (x) -> x + 1")
       => outcome.ok /\ outcome.value = VInt(4)
    /\ script_source = BodyOf("[1, 2, 3] reduce (item, acc) -> item + acc")
       => outcome.ok /\ outcome.value = VInt(6)

\* C5: _infix_reduce over the coerced sequence [x1..xn] with callable f: an
\* empty sequence yields null; the accumulator is seeded with f(x1) called
\* with one argument; for each later xi it becomes f(xi, acc) when f declares
\* more than one parameter and f(xi) otherwise.  Reducing [1,2,3] with
\* `(x) -> x + 1` returns 4 and with `(item, acc) -> item + acc` returns 6.
C5_ReduceArityRule ==
    /\ (BodyIsReduce /\ ReducedSequence.ok) =>
          LET items == _to_iterable(Deref(ReducedSequence.value, variables))
          IN items.ok =>
                IF Len(items.value) = 0
                THEN outcome.ok /\ outcome.value = VNull
                ELSE SameResult(outcome, ReduceExpected(items.value, Len(items.value)))
    /\ pc = "done" => ReduceExample

\* C5 witness: [1, 2, 3] reduced with `(item, acc) -> item + acc`: the lambda
\* body ran three times and the result is 6.
C5_Witness ==
    /\ BodyIsReduce
    /\ script_source = BodyOf("[1, 2, 3] reduce (item, acc) -> item + acc")
    /\ Count(evalLog, <<0, 2, 0>>) = 3
    /\ outcome.ok /\ outcome.value = VInt(6)

\* The expression an operand text parses to on its own.
Operand(text) == parse_expression_from_source(text).expr

ToExample ==
    (script_source = BodyOf("1 to 3 map (n) -> n * n") /\ pc = "done")
    => /\ outcome.ok
       /\ outcome.value = VList(<<VInt(1), VInt(4), VInt(9)>>)

\* C6: the right operand of the infix operator `to` is parsed without
\* consuming a following infix identifier: for every infix identifier op,
\* `a to b op c` parses as op(_infix_to(a, b), c), so that
\* `1 to 3 map (n) -> n * n` evaluates to [1, 4, 9].
C6_ToBindsTighter ==
    /\ (Len(fragments) = 4 /\ pc # "parse")
       => /\ script_source =
                BodyOf(ToChain(fragments[1], fragments[2], fragments[3], fragments[4]))
          /\ script.ok
          /\ script.expr.body =
                FunctionCall(Identifier(INFIX_SPECIAL(fragments[3])),
                             << FunctionCall(Identifier("_infix_to"),
                                             <<Operand(fragments[1]),
                                               Operand(fragments[2])>>),
                                Operand(fragments[4]) >>)
    /\ ToExample

\* C6 witness: `1 to 3 map (n) -> n * n` parsed as _infix_map(_infix_to(1, 3),
\* lambda) and evaluated to [1, 4, 9].
C6_Witness ==
    /\ script_source = BodyOf("1 to 3 map (n) -> n * n")
    /\ pc = "done"
    /\ script.expr.body.function = Identifier("_infix_map")
    /\ script.expr.body.arguments[1] =
          FunctionCall(Identifier("_infix_to"), <<NumberLiteral(1), NumberLiteral(3)>>)
    /\ outcome.ok
    /\ outcome.value = VList(<<VInt(1), VInt(4), VInt(9)>>)


-----------------------------------------------------------------------------
(* Expression shapes.                                                       *)

\* The intrinsic a binary operator is lowered to.
LoweredName(op) ==
    CASE op = "+" -> "_binary_plus"
      [] op = "++" -> "_binary_concat"
      [] op = "--" -> "_binary_diff"
      [] op = "*" -> "_binary_times"
      [] op = "==" -> "_binary_eq"
      [] op = "!=" -> "_binary_neq"
      [] op = ">" -> "_binary_gt"
      [] op = "<" -> "_binary_lt"
      [] op = ">=" -> "_binary_gte"
      [] op = "<=" -> "_binary_lte"

\* The node of `left op right`.
Binary(op, left, right) ==
    IF op = "default" THEN DefaultOp(left, right)
    ELSE FunctionCall(Identifier(LoweredName(op)), <<left, right>>)

\* The input is a op1 b op2 c and has been parsed.
ParsedBinary == pc = "parsed" /\ fragments[1] = "binary"

\* C7 as stated: for every binary operator op and all primary expressions
\* a, b and c, `a op b op c` parses to the same tree as `(a op b) op c`.
C7_LeftAssociativeAsStated ==
    (ParsedBinary /\ fragments[3] = fragments[5])
    => LET nested == parse_expression_from_source(
                         LeftNested(fragments[2], fragments[3], fragments[4],
                                    fragments[5], fragments[6]))
       IN /\ parsed.ok
          /\ nested.ok
          /\ parsed.expr = nested.expr

\* C7: every binary operator op in {+, ++, --, *, ==, !=, >, <, >=, <=,
\* default} is left-associative: for primary expressions a, b and c of which
\* a and b are not lambdas in the simple form, `a op b op c` parses to the
\* same tree as `(a op b) op c`, the node of op whose left operand is the node
\* of `a op b` and whose right operand is c.
C7_LeftAssociative ==
    (/\ ParsedBinary
     /\ fragments[3] = fragments[5]
     /\ fragments[2] \notin LambdaPrimaries
     /\ fragments[4] \notin LambdaPrimaries)
    => LET op == fragments[3]
           nested == parse_expression_from_source(
                         LeftNested(fragments[2], op, fragments[4], op, fragments[6]))
       IN /\ parsed.ok
          /\ nested.ok
          /\ parsed.expr = nested.expr
          /\ parsed.expr = Binary(op, Binary(op, Operand(fragments[2]),
                                                 Operand(fragments[4])),
                                  Operand(fragments[6]))

\* C7 witness: `1 default x default (n) -> n` parsed to a DefaultOp whose left
\* operand is the DefaultOp of 1 and x.
C7_Witness ==
    /\ ParsedBinary
    /\ script_source = "1 default x default (n) -> n"
    /\ parsed.ok
    /\ parsed.expr.type = "DefaultOp"
    /\ parsed.expr.left = DefaultOp(NumberLiteral(1), Identifier("x"))
    /\ parsed.expr.right.type = "LambdaExpression"


\* The precedence level of a binary operator, lowest first.
Level(op) ==
    CASE op = "default" -> 1
      [] op \in {"==", "!=", ">", "<", ">=", "<="} -> 2
      [] op \in {"+", "++", "--"} -> 3
      [] op = "*" -> 4

\* a op1 (b op2 c)
RightNested(a, op1, b, op2, c) ==
    a \o " " \o op1 \o " (" \o b \o " " \o op2 \o " " \o c \o ")"

\* `a op1 b op2 c` is grouped by precedence: op2 takes b when it binds tighter
\* than op1, and the whole of `a op1 b` otherwise.
GroupedByLevel ==
    (/\ ParsedBinary
     /\ fragments[2] \notin LambdaPrimaries
     /\ fragments[4] \notin LambdaPrimaries)
    => LET a == fragments[2]
           op1 == fragments[3]
           b == fragments[4]
           op2 == fragments[5]
           c == fragments[6]
       IN /\ parsed.ok
          /\ parsed.expr =
                IF Level(op2) > Level(op1)
                THEN Binary(op1, Operand(a), Binary(op2, Operand(b), Operand(c)))
                ELSE Binary(op2, Binary(op1, Operand(a), Operand(b)), Operand(c))
          /\ parsed.expr =
                IF Level(op2) > Level(op1)
                THEN Operand(RightNested(a, op1, b, op2, c))
                ELSE Operand(LeftNested(a, op1, b, op2, c))

\* A postfix chain binds tighter than every binary operator: in `a op chain`
\* the whole chain is the right operand of op.
PostfixBindsTightest ==
    (pc = "parsed" /\ fragments[1] = "postfix")
    => /\ parsed.ok
       /\ Operand(fragments[4]).type \in {"PropertyAccess", "FunctionCall", "IndexAccess"}
       /\ parsed.expr = Binary(fragments[3], Operand(fragments[2]), Operand(fragments[4]))

PrecedenceExamples ==
    pc = "parsed"
    => /\ script_source = "a + b * c"
          => parsed.expr = Binary("+", Identifier("a"),
                                  Binary("*", Identifier("b"), Identifier("c")))
       /\ script_source = "a default b == c"
          => parsed.expr = DefaultOp(Identifier("a"),
                                     Binary("==", Identifier("b"), Identifier("c")))
       /\ script_source = "p.x.y"
          => /\ parsed.expr =
                   PropertyAccess(PropertyAccess(Identifier("p"), "x", FALSE), "y", FALSE)
             /\ parsed.expr = Operand("(p.x).y")

\* C8: operator precedence, lowest to highest, is default < comparison <
\* additive < multiplicative < postfix: `a + b * c` parses as `a + (b * c)`,
\* `a default b == c` parses as `a default (b == c)`, and `p.x.y` parses as
\* `(p.x).y`.
C8_Precedence ==
    /\ GroupedByLevel
    /\ PostfixBindsTightest
    /\ PrecedenceExamples

\* C8 witness: `a + b * c` parsed to the sum of a and the product of b and c.
C8_Witness ==
    /\ pc = "parsed"
    /\ script_source = "a + b * c"
    /\ fragments = <<"binary", "a", "+", "b", "*", "c">>
    /\ parsed.ok
    /\ parsed.expr.function = Identifier("_binary_plus")
    /\ parsed.expr.arguments[2] =
          FunctionCall(Identifier("_binary_times"), <<Identifier("b"), Identifier("c")>>)

\* 0-based position of the first character of `text` at or after `from` that
\* is not whitespace, and the 1-based line and column of a position.
FirstTokenAt(text, from) == RunEnd(text, from, Whitespace)
NewlinesBefore(text, pos) == {i \in 0..(pos - 1) : CharAt(text, i) = "\n"}
LineAt(text, pos) == 1 + Cardinality(NewlinesBefore(text, pos))
ColumnAt(text, pos) ==
    LET breaks == NewlinesBefore(text, pos)
    IN IF breaks = {} THEN pos + 1
       ELSE pos - (CHOOSE i \in breaks : \A j \in breaks : j <= i)

\* On success the cursor is at the EOF token, the last one.
SuccessConsumesAll ==
    (pc = "parsed" /\ parsed.ok)
    => LET toks == Tokenizer_tokens(script_source).tokens
       IN /\ TokKind(current(toks, parsed.index)) = "EOF"
          /\ parsed.index = Len(toks) - 1

\* Whenever parse_expression returns with the cursor on a token other than
\* EOF, the ParseError of that token's line and column is raised.
RemainingTokensRaise ==
    (pc = "parsed" /\ Tokenizer_tokens(script_source).ok)
    => LET toks == Tokenizer_tokens(script_source).tokens
           r == parse_expression(toks, 0)
       IN (r.ok /\ TokKind(current(toks, r.index)) # "EOF")
          => /\ ~parsed.ok
             /\ parsed.err = ParseErrorAt("Unexpected tokens after expression",
                                          current(toks, r.index))

\* A complete expression followed by a token that cannot continue it: the
\* error is at the place of that token in the text.
TrailingTokenRaises ==
    (/\ pc = "parsed"
     /\ fragments[1] = "trailing"
     /\ Operand(fragments[2]) # PyNone
     /\ fragments[3] # "")
    => LET at == FirstTokenAt(script_source, Len(fragments[2]))
       IN /\ ~parsed.ok
          /\ parsed.err.kind = "ParseError"
          /\ parsed.err.positioned
          /\ parsed.err.msg = "Unexpected tokens after expression"
          /\ parsed.err.line = LineAt(script_source, at)
          /\ parsed.err.column = ColumnAt(script_source, at)

\* C9: parse_expression_eof succeeds only when the expression consumed every
\* token up to end-of-input: on success the cursor is at the EOF token; when
\* tokens remain after a complete expression, a ParseError naming the line
\* and column of the first remaining token is raised.
C9_ParserTotality ==
    /\ SuccessConsumesAll
    /\ RemainingTokensRaise
    /\ TrailingTokenRaises

\* C9 witness: `a + b` followed on the third line by `]` raised the ParseError
\* of line 3, column 1.
C9_Witness ==
    /\ pc = "parsed"
    /\ fragments = <<"trailing", "a + b", "\n\n]">>
    /\ ~parsed.ok
    /\ parsed.err.positioned
    /\ parsed.err.line = 3
    /\ parsed.err.column = 1


-----------------------------------------------------------------------------
(* Match expressions: the body is `subject match { cases }`.                *)

BodyIsMatch == BodyEvaluated /\ script.expr.body.type = "MatchExpression"
Cases == script.expr.body.cases
Subject == _evaluate(script.expr.body.value, BodyContext, <<0, 0>>)

\* The context of case i: the body's, with the subject bound by `var name`.
CaseContext(i) ==
    IF Cases[i].pattern # PyNone /\ Cases[i].pattern.binding # ""
    THEN EvaluationContext(payload,
                           DictSet(variables, Cases[i].pattern.binding, Subject.value),
                           FALSE, variables)
    ELSE BodyContext

IsElse(i) == Cases[i].pattern = PyNone
HasMatcher(i) == ~IsElse(i) /\ Cases[i].pattern.matcher # PyNone
HasGuard(i) == ~IsElse(i) /\ Cases[i].pattern.guard # PyNone
MatcherValue(i) == _evaluate(Cases[i].pattern.matcher, BodyContext, <<0, i, 1>>)
GuardValue(i) == _evaluate(Cases[i].pattern.guard, CaseContext(i), <<0, i, 2>>)

\* The subject equals the value of the case's pattern expression (a `var`
\* pattern has none and takes every subject).
PatternMatches(i) ==
    HasMatcher(i) => (MatcherValue(i).ok /\ PyEq(Subject.value, MatcherValue(i).value))

\* Case i matches: it is the else case, or its pattern takes the subject and
\* its guard, if any, holds.
CaseMatches(i) ==
    \/ IsElse(i)
    \/ /\ PatternMatches(i)
       /\ HasGuard(i) => (GuardValue(i).ok /\ PyBool(Deref(GuardValue(i).value, variables)))

\* Trying case i raises: its pattern expression does, or its guard does.
CaseRaises(i) ==
    \/ HasMatcher(i) /\ ~MatcherValue(i).ok
    \/ PatternMatches(i) /\ HasGuard(i) /\ ~GuardValue(i).ok

\* The cases that end the iteration, and the first of them.
Deciding == {i \in 1..Len(Cases) : CaseMatches(i) \/ CaseRaises(i)}
FirstDeciding == CHOOSE i \in Deciding : \A j \in Deciding : i <= j

\* Some part of case i (pattern expression, guard, expression) was evaluated.
CaseTouched(i) == \E k \in 1..3 : Count(evalLog, <<0, i, k>>) > 0

\* Case i was tried: what it has of pattern expression and guard up to the
\* failing part was evaluated once, and not its expression.
TriedAndFailed(i) ==
    /\ HasMatcher(i) => Count(evalLog, <<0, i, 1>>) = 1
    /\ (HasGuard(i) /\ PatternMatches(i)) => Count(evalLog, <<0, i, 2>>) = 1
    /\ Count(evalLog, <<0, i, 3>>) = 0

\* Everything evaluated for case i comes before everything evaluated for the
\* case after it.
InSourceOrder ==
    \A m, n \in 1..Len(evalLog) :
        (/\ Len(evalLog[m]) >= 2 /\ Len(evalLog[n]) >= 2
         /\ Head(evalLog[m]) = 0 /\ Head(evalLog[n]) = 0
         /\ evalLog[m][2] > 0 /\ evalLog[m][2] < evalLog[n][2])
        => m < n

MatchResults ==
    (pc = "done" /\ script_source = BodyOf(MatchExample))
    => /\ payload = VInt(-1) => (outcome.ok /\ outcome.value = VStr("neg"))
       /\ payload = VInt(0) => (outcome.ok /\ outcome.value = VStr("zero"))
       /\ payload = VInt(5) => (outcome.ok /\ outcome.value = VStr("pos"))

\* C10: a match expression evaluates its subject once, tries the cases in
\* source order and returns the expression of the first case that matches; an
\* else case always matches, so no case written after it is ever evaluated;
\* when no case matches and there is no else the result is null; at most one
\* case expression is evaluated.  On the example script the results are "neg"
\* for -1, "zero" for 0 and "pos" for 5.
C10_MatchFirstCase ==
    /\ BodyIsMatch
       => /\ Count(evalLog, <<0, 0>>) = 1
          /\ Cardinality({i \in 1..Len(Cases) : Count(evalLog, <<0, i, 3>>) > 0}) <= 1
          /\ \A i \in 1..Len(Cases) : Count(evalLog, <<0, i, 3>>) <= 1
          /\ InSourceOrder
          /\ \A e \in 1..Len(Cases) :
                IsElse(e) => \A j \in (e + 1)..Len(Cases) : ~CaseTouched(j)
          /\ (Subject.ok /\ Deciding = {})
             => /\ outcome.ok /\ outcome.value = VNull
                /\ \A i \in 1..Len(Cases) : TriedAndFailed(i)
          /\ (Subject.ok /\ Deciding # {} /\ CaseMatches(FirstDeciding))
             => /\ SameResult(outcome,
                              _evaluate(Cases[FirstDeciding].expression,
                                        CaseContext(FirstDeciding),
                                        <<0, FirstDeciding, 3>>))
                /\ Count(evalLog, <<0, FirstDeciding, 3>>) = 1
                /\ \A i \in 1..(FirstDeciding - 1) : TriedAndFailed(i)
                /\ \A j \in (FirstDeciding + 1)..Len(Cases) : ~CaseTouched(j)
    /\ MatchResults

\* C10 witness: the example script on payload -1: the guard of the first case
\* and the pattern of the second were evaluated and failed, and the else case
\* gave "neg".
C10_Witness ==
    /\ BodyIsMatch
    /\ script_source = BodyOf(MatchExample)
    /\ payload = VInt(-1)
    /\ Len(Cases) = 3
    /\ IsElse(3)
    /\ Count(evalLog, <<0, 1, 2>>) = 1
    /\ Count(evalLog, <<0, 2, 1>>) = 1
    /\ Count(evalLog, <<0, 3, 3>>) = 1
    /\ outcome.ok
    /\ outcome.value = VStr("neg")

-----------------------------------------------------------------------------
(* C11: identifier lookup order.                                            *)

IsLookupRun == Len(fragments) = 3 /\ fragments[1] = "lookup"
LookupPlace == fragments[2]
LookupName == fragments[3]

\* C11: an identifier resolves in the order payload, vars, intrinsic function
\* names, local variables: a header variable, a caller variable, a match
\* binding or a lambda parameter called `payload`, `vars` or like an intrinsic
\* is never the result of the bare name, any other name yields the variable
\* bound to it, and a name bound nowhere raises NameError.
C11_IdentifierLookupOrder ==
    (IsLookupRun /\ pc = "done") =>
        /\ script.ok
        /\ CASE LookupName = "payload" ->
                    outcome.ok /\ outcome.value = payload
             [] LookupName = "vars" ->
                    /\ outcome.ok
                    /\ Deref(outcome.value, variables).t = "dict"
                    /\ LookupPlace \in {"body", "header"} =>
                           Deref(outcome.value, variables) = VDict(variables)
             [] LookupName \in {"_binary_plus", "_infix_map"} ->
                    outcome.ok /\ outcome.value = VBuiltin(LookupName)
             [] OTHER ->
                    IF LookupPlace = "body"
                    THEN IF DictHas(variables, LookupName)
                         THEN outcome.ok /\ outcome.value = DictGet(variables, LookupName)
                         ELSE ~outcome.ok /\ outcome.err.kind = "NameError"
                    ELSE outcome.ok /\ outcome.value = VInt(7)

\* A match binding called like an intrinsic was bound to 7 and the body still
\* got the intrinsic, with a caller variable of that name present as well.
C11_Witness ==
    /\ IsLookupRun
    /\ pc = "done"
    /\ LookupPlace = "match"
    /\ LookupName = "_binary_plus"
    /\ DictHas(variables, "_binary_plus")
    /\ Count(evalLog, <<0, 1, 3>>) = 1
    /\ outcome.ok
    /\ outcome.value = VBuiltin("_binary_plus")

-----------------------------------------------------------------------------
(* C12: header declarations are evaluated one after the other.              *)

IsDeclarationRun == Len(fragments) = 2 /\ fragments[1] = "declare"
Declared == fragments[2].declarations
SuppliedVars == fragments[2].vars

\* What a declaration text of the inputs denotes in an environment, worked
\* out from the text alone.
NameIn(text) == IF text = "b + 1" THEN "b" ELSE text
Bound(text, env) == text = "1" \/ DictHas(env, NameIn(text))
ValueIn(text, env) ==
    CASE text = "1" -> VInt(1)
      [] text = "b + 1" -> VInt(DictGet(env, "b").v + 1)
      [] OTHER -> DictGet(env, text)

\* The environment after the first k declarations, none of them failing.
RECURSIVE EnvAfter(_)
EnvAfter(k) ==
    IF k = 0 THEN SuppliedVars
    ELSE DictSet(EnvAfter(k - 1), Declared[k][1], ValueIn(Declared[k][2], EnvAfter(k - 1)))

\* The first declaration that looks up a name neither supplied by the caller
\* nor declared before it; 0 when there is none.
RECURSIVE FirstUnbound(_)
FirstUnbound(k) ==
    IF k > Len(Declared) THEN 0
    ELSE IF ~Bound(Declared[k][2], EnvAfter(k - 1)) THEN k
    ELSE FirstUnbound(k + 1)

\* The roots on which execute called _evaluate, in the order of the calls:
\* k for declaration k, 0 for the body.
Roots == [i \in 1..Len(SelectSeq(evalLog, LAMBDA p : Len(p) = 1)) |->
             SelectSeq(evalLog, LAMBDA p : Len(p) = 1)[i][1]]
UpTo(k) == [i \in 1..k |-> i]

ExpectedBody(env) ==
    IF fragments[2].body = "x"
    THEN IF DictHas(env, "x") THEN [ok |-> TRUE, value |-> DictGet(env, "x")]
         ELSE [ok |-> FALSE, value |-> VNull]
    ELSE IF DictHas(env, "a") /\ DictHas(env, "b")
         THEN [ok |-> TRUE, value |-> VList(<<DictGet(env, "a"), DictGet(env, "b")>>)]
         ELSE [ok |-> FALSE, value |-> VNull]

C12_WitnessForward ==
    /\ IsDeclarationRun
    /\ pc = "done"
    /\ Declared = << <<"a", "b">>, <<"b", "1">> >>
    /\ SuppliedVars = <<>>
    /\ Roots = <<1>>
    /\ ~outcome.ok
    /\ outcome.err.kind = "NameError"

-----------------------------------------------------------------------------
(* C13: the %dw directive of the header.                                    *)

IsHeaderRun == Len(fragments) = 2 /\ fragments[1] = "header"
VersionLines == {i \in 1..Len(fragments[2]) : startswith(fragments[2][i], "%dw ", 0)}
RaisedParseError == pc = "done" /\ ~script.ok /\ script.err.kind = "ParseError"

\* C13: a header is accepted only with exactly one `%dw <version>` directive:
\* with none, and with more than one, parse_script raises ParseError.
C13_ExactlyOneVersion ==
    (IsHeaderRun /\ pc # "parse" /\ Cardinality(VersionLines) # 1) => RaisedParseError

\* A header without a `%dw <version>` line raises ParseError, and so does a
\* `%dw` line without a version.
C13_VersionRequired ==
    (IsHeaderRun /\ pc # "parse"
     /\ (VersionLines = {} \/ \E i \in 1..Len(fragments[2]) : fragments[2][i] = "%dw"))
    => RaisedParseError

\* A header with two `%dw <version>` lines was accepted, the later version
\* recorded, and the script ran.
C13_TwoVersionsAccepted ==
    /\ IsHeaderRun
    /\ fragments[2] = <<"%dw 2.0", "%dw 1.0", "var a = 1">>
    /\ pc = "done"
    /\ script.ok
    /\ script.expr.header.version = "1.0"
    /\ outcome.ok
    /\ outcome.value = VInt(1)

-----------------------------------------------------------------------------
(* C14: the body separator.                                                 *)

IsSeparatorRun == Len(fragments) = 3 /\ fragments[1] = "separator"
IsUnseparatedRun == Len(fragments) = 3 /\ fragments[1] = "unseparated"
Before == fragments[2]
After == fragments[3]
Occurs(text, part) == find(text, part, 0) # -1

\* C14: parse_script accepts a source only when `---` occurs exactly once in
\* it: without `---` it raises ParseError, with more than one occurrence,
\* wherever they are, it raises ParseError.
C14_ExactlyOneSeparator ==
    /\ (IsUnseparatedRun /\ pc # "parse") => RaisedParseError
    /\ (IsSeparatorRun /\ pc # "parse" /\ Occurs(After, "---")) => RaisedParseError

\* C14 as the code has it: a source without `---` raises ParseError; any other
\* source is split at the first `---`, the header being the text before it
\* and the body all the text after it, and is accepted exactly when that
\* header and that body parse: a later `---` in a string or comment of the
\* body is accepted, one that stands in the body as code raises ParseError.
C14_SplitAtFirstSeparator ==
    /\ (IsUnseparatedRun /\ pc # "parse") =>
           /\ ~Occurs(script_source, "---")
           /\ RaisedParseError
           /\ script.err.msg = "Script must contain body separator '---'"
    /\ (IsSeparatorRun /\ pc # "parse") =>
           LET hdr == _parse_header(strip(Before))
               body_expr == parse_expression_from_source(strip(After))
           IN  /\ ~Occurs(Before, "---")
               /\ script.ok = (hdr.ok /\ body_expr.ok)
               /\ script.ok => /\ script.expr.header = hdr.expr
                               /\ script.expr.body = body_expr.expr
               /\ ~script.ok => script.err.kind = "ParseError"
               /\ After \in AfterAsCode => ~script.ok
               /\ (After \in AfterInStringOrComment /\ hdr.ok) => script.ok

\* The script whose body is the string 'a---b' was accepted and yielded it.
C14_Witness ==
    /\ IsSeparatorRun
    /\ Before = "%dw 2.0\nvar a = 1\n"
    /\ After = "\n'a---b'"
    /\ pc = "done"
    /\ script.ok
    /\ Len(script.expr.header.variables) = 1
    /\ outcome.ok
    /\ outcome.value = VStr("a---b")

-----------------------------------------------------------------------------
(* C15: the line and column of a token.                                     *)

Tokenized == pc = "tokens" /\ fragments[1] = "lex"

\* 0-based positions of the first characters of the two lexemes and of the
\* end of the source, from the lengths of the pieces before them.
TokenStarts ==
    <<Len(fragments[2]),
      Len(fragments[2]) + Len(fragments[3]) + Len(fragments[4]),
      Len(script_source)>>

KindOf(lexeme) ==
    CASE lexeme = "a" -> "IDENT"
      [] lexeme = "1.5" -> "NUMBER"
      [] lexeme = "--" -> "DIFF"
      [] lexeme = "default" -> "DEFAULT"
      [] OTHER -> "STRING"

\* C15: every token the tokenizer emits, the final EOF included, reports as
\* line 1 plus the number of newlines before its first character and as
\* column 1 plus the number of characters between the last newline before it
\* (or the start of the source) and its first character; whitespace and
\* comments move the counters and emit no token.
C15_TokenPositions ==
    Tokenized =>
        /\ parsed.ok = (fragments[6] # "/* open")
        /\ parsed.ok =>
              /\ Len(parsed.tokens) = 3
              /\ TokKind(parsed.tokens[1]) = KindOf(fragments[3])
              /\ TokKind(parsed.tokens[2]) = KindOf(fragments[5])
              /\ TokKind(parsed.tokens[3]) = "EOF"
              /\ \A i \in 1..3 :
                    /\ TokLine(parsed.tokens[i]) = LineAt(script_source, TokenStarts[i])
                    /\ TokCol(parsed.tokens[i]) = ColumnAt(script_source, TokenStarts[i])

\* A token after a block comment that holds a newline, a string token that
\* holds a newline, and the EOF token after a line comment.
C15_Witness ==
    /\ Tokenized
    /\ fragments = <<"lex", "/* x\ny */", "'s\nt'", "// c\n", "--", "// end">>
    /\ parsed.ok
    /\ parsed.tokens[1] = <<"STRING", "'s\nt'", 2, 5>>
    /\ parsed.tokens[2] = <<"DIFF", "--", 4, 1>>
    /\ parsed.tokens[3] = <<"EOF", "", 4, 9>>

-----------------------------------------------------------------------------
(* C16: sequence coercion.                                                  *)

IsCoercingRun == Len(fragments) = 2 /\ fragments[1] = "coerce"

\* The sequence the claim gives for a value.
StatedSequence(value) ==
    CASE value.t = "null" -> <<>>
      [] value.t = "list" -> value.v
      [] value.t = "dict" -> [i \in 1..Len(value.v) |-> value.v[i][2]]
      [] OTHER -> <<value>>

\* What the operator of the run yields on a sequence of distinct items: map,
\* filter, flatMap and distinctBy are handed lambdas that give the items back,
\* reduce one that gives the last item.
OverSequence(items) ==
    IF fragments[2] = "reduce"
    THEN IF Len(items) = 0 THEN VNull ELSE items[Len(items)]
    ELSE VList(items)

\* C16: _to_iterable maps null to the empty list, a list to itself, an object
\* to its values in insertion order and a scalar (number, boolean, string) to
\* the one-element list of it, so map, filter, flatMap, reduce and distinctBy
\* on a scalar work on a one-element sequence.
C16_SequenceCoercion ==
    (IsCoercingRun /\ pc = "done") =>
        /\ outcome.ok
        /\ outcome.value = OverSequence(StatedSequence(payload))

\* The part of C16 the code keeps: null, lists and objects.
C16_CoercionOfNonScalars ==
    (IsCoercingRun /\ pc = "done" /\ payload.t \in {"null", "list", "dict"}) =>
        /\ outcome.ok
        /\ outcome.value = OverSequence(StatedSequence(payload))

\* map over the number 5 raised TypeError without calling the lambda.
C16_ScalarRaises ==
    /\ IsCoercingRun
    /\ pc = "done"
    /\ fragments[2] = "map"
    /\ payload = VInt(5)
    /\ ~outcome.ok
    /\ outcome.err.kind = "TypeError"
    /\ Count(evalLog, <<0, 2, 0>>) = 0

-----------------------------------------------------------------------------
(* C17: two infix identifier calls in a row.                                *)

\* The input is a f b g c and has been parsed.
ParsedInfix == pc = "parsed" /\ fragments[1] = "infix"
InfixCall(name, left, right) ==
    FunctionCall(Identifier(INFIX_SPECIAL(name)), <<left, right>>)

\* C17: infix identifier calls associate to the left: for infix identifiers f
\* and g other than `to` and primary operands a, b, c, `a f b g c` parses as
\* g(f(a, b), c).
C17_InfixNestsLeft ==
    ParsedInfix =>
        /\ parsed.ok
        /\ parsed.expr = InfixCall(fragments[5],
                                   InfixCall(fragments[3], Operand(fragments[2]),
                                             Operand(fragments[4])),
                                   Operand(fragments[6]))

\* C17 as the code has it: the right operand of f is a full postfix chain and
\* takes in the infix call that follows, so `a f b g c` parses as
\* f(a, g(b, c)), for a and b that are not lambdas in the simple form.
C17_InfixNestsRight ==
    (ParsedInfix /\ fragments[2] \notin LambdaPrimaries
                 /\ fragments[4] \notin LambdaPrimaries) =>
        /\ parsed.ok
        /\ parsed.expr = InfixCall(fragments[3], Operand(fragments[2]),
                                   InfixCall(fragments[5], Operand(fragments[4]),
                                             Operand(fragments[6])))
        /\ parsed.expr # InfixCall(fragments[5],
                                   InfixCall(fragments[3], Operand(fragments[2]),
                                             Operand(fragments[4])),
                                   Operand(fragments[6]))

\* `x map (y) filter (n) -> n` is map(x, filter(y, lambda)).
C17_Witness ==
    /\ ParsedInfix
    /\ fragments = <<"infix", "x", "map", "(y)", "filter", "(n) -> n">>
    /\ parsed.ok
    /\ parsed.expr.type = "FunctionCall"
    /\ parsed.expr.function = Identifier("_infix_map")
    /\ parsed.expr.arguments[1] = Identifier("x")
    /\ parsed.expr.arguments[2].type = "FunctionCall"
    /\ parsed.expr.arguments[2].function = Identifier("_infix_filter")
    /\ parsed.expr.arguments[2].arguments[1] = Identifier("y")

-----------------------------------------------------------------------------
(* C18: the scope of a match binding.                                       *)

IsScopeRun == Len(fragments) = 3 /\ fragments[1] = "scope"
OuterHasN == fragments[2] = "header"
Unbound == ~outcome.ok /\ outcome.err.kind = "NameError"
Yields(value) == outcome.ok /\ outcome.value = value

\* C18: the binding of `case var n` holds in that case only: the guard and
\* the case expression see n = subject, a matcher is evaluated in the outer
\* environment, later cases and what follows the match see the outer n or
\* none, and the variables of the enclosing environment stay as they were.
C18_BindingScopedToCase ==
    (IsScopeRun /\ pc = "done") =>
        /\ script.ok
        /\ variables = IF OuterHasN THEN << <<"n", VInt(1)>> >> ELSE <<>>
        /\ CASE fragments[3] = "guard" -> Yields(VStr("in"))
             [] fragments[3] = "expression" -> Yields(VInt(7))
             [] fragments[3] = "matcher" ->
                    IF OuterHasN THEN Yields(VStr("other")) ELSE Unbound
             [] fragments[3] = "later" ->
                    IF OuterHasN THEN Yields(VInt(1)) ELSE Unbound
             [] fragments[3] = "after" ->
                    IF OuterHasN THEN Yields(VList(<<VInt(7), VInt(1)>>)) ELSE Unbound

\* The first case bound n = 7 and its guard was evaluated and failed; the
\* else case then read n and got the header's 1.
C18_Witness ==
    /\ IsScopeRun
    /\ pc = "done"
    /\ OuterHasN
    /\ fragments[3] = "later"
    /\ Count(evalLog, <<0, 1, 2>>) = 1
    /\ Count(evalLog, <<0, 2, 3>>) = 1
    /\ Yields(VInt(1))

-----------------------------------------------------------------------------
(* C19: the order of the steps of a call.                                   *)

IsCallRun == Len(fragments) = 2 /\ fragments[1] = "call"
Callee == fragments[2].callee
Arguments == fragments[2].arguments
FirstAt(log, p) == CHOOSE i \in 1..Len(log) : log[i] = p /\ \A j \in 1..(i - 1) : log[j] # p

\* The arguments before the first one that raises, that one included.
Reached(i) == \A j \in 1..(i - 1) : Arguments[j] # "missing"
AllArgumentsFine == \A j \in 1..Len(Arguments) : Arguments[j] # "missing"

\* The callee was evaluated once and first; the arguments up to the first one
\* that raises were evaluated once each, left to right, the others not; a
\* lambda callee was applied after the last argument, when none raised.
ArgumentsInOrder ==
    /\ Count(evalLog, <<0, 0>>) = 1
    /\ \A i \in 1..Len(Arguments) :
          Reached(i) => FirstAt(evalLog, <<0, 0>>) < FirstAt(evalLog, <<0, i>>)
    /\ \A i \in 1..Len(Arguments) :
          Count(evalLog, <<0, i>>) = IF Reached(i) THEN 1 ELSE 0
    /\ \A i \in 1..Len(Arguments) : \A j \in 1..Len(Arguments) :
          (i < j /\ Reached(j)) => FirstAt(evalLog, <<0, i>>) < FirstAt(evalLog, <<0, j>>)

\* C19: a call evaluates the callee; when its value is not callable, TypeError
\* is raised at that point, before any argument is evaluated; otherwise every
\* argument is evaluated exactly once, left to right, and only then is the
\* callee applied.
C19_CalleeCheckedFirst ==
    (IsCallRun /\ pc = "done") =>
        /\ script.ok
        /\ Callee \in NonCallables =>
              /\ ~outcome.ok
              /\ outcome.err.kind = "TypeError"
              /\ Count(evalLog, <<0, 0>>) = 1
              /\ \A i \in 1..Len(Arguments) : Count(evalLog, <<0, i>>) = 0
        /\ Callee \in Callables =>
              /\ ArgumentsInOrder
              /\ ~AllArgumentsFine => ~outcome.ok /\ outcome.err.kind = "NameError"

\* What the code does: the arguments are evaluated, left to right, whatever
\* the callee is, and the callee is tested after them: an argument that
\* raises wins over the TypeError of a callee that is not callable.
C19_CalleeCheckedLast ==
    (IsCallRun /\ pc = "done") =>
        /\ script.ok
        /\ ArgumentsInOrder
        /\ ~AllArgumentsFine => ~outcome.ok /\ outcome.err.kind = "NameError"
        /\ (AllArgumentsFine /\ Callee \in NonCallables) =>
               ~outcome.ok /\ outcome.err.kind = "TypeError"

\* `5(1, missing)`: both arguments were evaluated and the call raised the
\* NameError of the second.
C19_ArgumentsBeforeCheck ==
    /\ IsCallRun
    /\ pc = "done"
    /\ Callee = "5"
    /\ Arguments = <<"1", "missing">>
    /\ evalLog = << <<0>>, <<0, 0>>, <<0, 1>>, <<0, 2>> >>
    /\ ~outcome.ok
    /\ outcome.err.kind = "NameError"

-----------------------------------------------------------------------------
(* C20: the position a ParseError carries.                                  *)

\* The input is a text that raises, and has been parsed.
ParsedError == pc = "parsed" /\ fragments[1] = "error"

\* 0-based position of the offending token: the first character after the
\* text before it that is not whitespace, or the end of the source.
OffendingAt == FirstTokenAt(script_source, Len(fragments[3]))

CarriesPosition ==
    /\ ~parsed.ok
    /\ parsed.err.kind = "ParseError"
    /\ parsed.err.positioned
    /\ parsed.err.line = LineAt(script_source, OffendingAt)
    /\ parsed.err.column = ColumnAt(script_source, OffendingAt)

\* C20: every ParseError of the tokenizer and of the expression parser
\* (unknown character, unterminated block comment, unexpected token, missing
\* expected token, missing else, empty match, trailing tokens) carries the
\* line and column of the offending token.
C20_ErrorsCarryPosition == ParsedError => CarriesPosition

\* The part of C20 the code keeps: every one of these errors but that of the
\* empty match carries the position, and the empty match raises ParseError.
C20_ErrorsButEmptyMatch ==
    ParsedError =>
        /\ ~parsed.ok
        /\ parsed.err.kind = "ParseError"
        /\ fragments[2] # "empty match" => CarriesPosition

\* `x match {` and `}` on the next line raised a ParseError without position.
C20_EmptyMatchUnpositioned ==
    /\ ParsedError
    /\ fragments = <<"error", "empty match", "// c\n  x match {\n", "  }">>
    /\ ~parsed.ok
    /\ parsed.err.kind = "ParseError"
    /\ parsed.err.msg = "Match expression must contain at least one case"
    /\ ~parsed.err.positioned

-----------------------------------------------------------------------------
(* C21: null in arithmetic.                                                 *)

IsArithmeticRun == Len(fragments) = 2 /\ fragments[1] = "arith"
LeftOperand == payload
RightOperand == DictGet(variables, "x")
NullAsZero(value) == IF value.t = "null" THEN VInt(0) ELSE value

\* The Python result of the operator of the run on two values.
Computed(l, r) == IF fragments[2] = "+" THEN PyAdd(l, r) ELSE PyMul(l, r)

\* C21: _binary_plus and _binary_times return l + r and l * r computed after
\* replacing each null operand by 0, every operand that is not null being
\* used as it is.
C21_NullIsZero ==
    (IsArithmeticRun /\ pc = "done") =>
        LET stated == Computed(NullAsZero(LeftOperand), NullAsZero(RightOperand))
        IN  /\ outcome.ok = stated.ok
            /\ outcome.ok => outcome.value = stated.value
            /\ ~outcome.ok => outcome.err.kind = stated.err.kind

\* The part of C21 the code keeps: operands that are null, numbers, booleans,
\* or strings and lists that are not empty.
C21_NullOrTruthy ==
    (IsArithmeticRun /\ pc = "done"
     /\ (LeftOperand.t = "null" \/ IsNumber(LeftOperand) \/ PyBool(LeftOperand))
     /\ (RightOperand.t = "null" \/ IsNumber(RightOperand) \/ PyBool(RightOperand))) =>
        LET stated == Computed(NullAsZero(LeftOperand), NullAsZero(RightOperand))
        IN  /\ outcome.ok = stated.ok
            /\ outcome.ok => outcome.value = stated.value
            /\ ~outcome.ok => outcome.err.kind = stated.err.kind

\* "" + "ab" raised TypeError: the empty string was replaced by 0.
C21_EmptyStringIsZero ==
    /\ IsArithmeticRun
    /\ pc = "done"
    /\ fragments[2] = "+"
    /\ LeftOperand = VStr("")
    /\ RightOperand = VStr("ab")
    /\ ~outcome.ok
    /\ outcome.err.kind = "TypeError"

-----------------------------------------------------------------------------
(* C22: what null-safe property access swallows.                            *)

IsAccessRun == Len(fragments) = 3 /\ fragments[1] = "access"
Receiver == fragments[2]
AccessOperator == fragments[3]
ReceiverError == IF Receiver = "missing" THEN "NameError" ELSE "TypeError"

\* C22: `e?.a` swallows the TypeError of the access itself and yields null;
\* an error raised while evaluating the receiver e (NameError of an unknown
\* identifier, TypeError of a callee that is not callable, of a lambda called
\* with too many arguments, of a plain access inside e) is not swallowed and
\* aborts execute.
C22_OnlyOwnErrorSwallowed ==
    (IsAccessRun /\ pc = "done") =>
        /\ script.ok
        /\ Count(evalLog, <<0, 1>>) = 1
        /\ Receiver \in RaisingReceivers =>
              /\ ~outcome.ok
              /\ outcome.err.kind = ReceiverError
        /\ (Receiver \in {"5", "'s'"} /\ AccessOperator = "?.") => Yields(VNull)
        /\ (Receiver \in {"5", "'s'"} /\ AccessOperator = ".") =>
              ~outcome.ok /\ outcome.err.kind = "TypeError"
        /\ Receiver \in {"null", "(5?.x)"} => Yields(VNull)
        /\ Receiver = "payload" => Yields(VInt(5))

\* `5(1)?.a`: the receiver was evaluated and raised TypeError, and the
\* null-safe access let it through.
C22_Witness ==
    /\ IsAccessRun
    /\ pc = "done"
    /\ Receiver = "5(1)"
    /\ AccessOperator = "?."
    /\ Count(evalLog, <<0, 1>>) = 1
    /\ Count(evalLog, <<0, 1, 1>>) = 1
    /\ ~outcome.ok
    /\ outcome.err.kind = "TypeError"

-----------------------------------------------------------------------------
(* C23: a header lambda that names itself.                                  *)

IsSelfRun == Len(fragments) = 2 /\ fragments[1] = "self"
SelfOuter == fragments[2].outer
SelfUse == fragments[2].use
SelfArgument == fragments[2].argument

\* The position of the body of the lambda the last declaration of f built.
SelfBody == IF SelfOuter = "earlier" THEN <<2, 0>> ELSE <<1, 0>>

\* Whether the call of the run evaluates the name f in the body.
ReadsSelf == SelfUse = "f" \/ SelfArgument = "1"

\* C23: a lambda bound by `var f = <lambda>` cannot call itself by name: f is
\* bound after the lambda is constructed and the closure is a snapshot, so a
\* reference to f in the body raises NameError when the call reaches it,
\* unless the caller's vars or an earlier declaration bound f, and then the
\* body gets that earlier f; the body runs once, never through itself.
C23_NoSelfReference ==
    (IsSelfRun /\ pc = "done") =>
        /\ script.ok
        /\ DictHas(variables, "f")
        /\ DictGet(variables, "f").t = "lambda"
        /\ Count(evalLog, SelfBody) = 1
        /\ IF ~ReadsSelf THEN Yields(VInt(0))
           ELSE CASE SelfOuter = "none" -> Unbound
                  [] SelfOuter = "caller" ->
                        IF SelfUse = "f" THEN Yields(VInt(9))
                        ELSE ~outcome.ok /\ outcome.err.kind = "TypeError"
                  [] SelfOuter = "earlier" ->
                        IF SelfUse = "f"
                        THEN /\ outcome.ok
                             /\ outcome.value.t = "lambda"
                             /\ outcome.value.v.site = <<1>>
                        ELSE Yields(VInt(7)) /\ Count(evalLog, <<1, 0>>) = 1

\* f(1) reached the call f(0) in the body of f and raised NameError, with f
\* bound to the lambda in the variables of execute.
C23_Witness ==
    /\ IsSelfRun
    /\ pc = "done"
    /\ SelfOuter = "none"
    /\ SelfUse = "if (n == 0) 0 else f(0)"
    /\ SelfArgument = "1"
    /\ DictGet(variables, "f").t = "lambda"
    /\ Count(evalLog, <<1, 0>>) = 1
    /\ Count(evalLog, <<1, 0, 3, 0>>) = 1
    /\ Unbound

-----------------------------------------------------------------------------
(* C24: a lambda called with fewer arguments than parameters.               *)

IsShortRun == Len(fragments) = 2 /\ fragments[1] = "short"
Supplied == fragments[2].count
Unsupplied == (Supplied + 1)..Len(CalledParameters)

\* An unsupplied parameter has no default; the first such parameter.
MissingArgument == \E i \in Unsupplied : ~HasDefault(i)
FirstMissing == CHOOSE i \in Unsupplied :
                    ~HasDefault(i) /\ \A j \in Unsupplied : j < i => HasDefault(j)

\* The defaults of the unsupplied parameters before the first one without a
\* default, and those of them that name the variable nothing binds.
EarlierDefaults == (Supplied + 1)..(FirstMissing - 1)
RaisingDefault(i) ==
    /\ CalledParameters[i].default.type = "Identifier"
    /\ CalledParameters[i].default.name = "missing"
DefaultReached(i) == \A j \in EarlierDefaults : j < i => ~RaisingDefault(j)

\* C24: a call of a lambda with fewer arguments than parameters, where an
\* unsupplied parameter has no default, raises and does not evaluate the
\* body: the parameter is never bound to null.  The defaults of the earlier
\* parameters are evaluated first, once each and in order; the error is the
\* TypeError "Missing argument '<name>' for lambda" when they all evaluate; the
\* defaults of the later parameters are not evaluated.
C24_MissingArgumentRaises ==
    (IsShortRun /\ pc = "done" /\ script.ok /\ MissingArgument) =>
        /\ BodyIsLambdaCall
        /\ ~outcome.ok
        /\ Count(evalLog, <<0, 0, 0>>) = 0
        /\ \A i \in 1..Supplied : Count(evalLog, <<0, i>>) = 1
        /\ \A i \in EarlierDefaults :
              /\ Count(evalLog, <<0, 0, i>>) = IF DefaultReached(i) THEN 1 ELSE 0
              /\ \A j \in EarlierDefaults :
                    (j < i /\ DefaultReached(i)) =>
                        FirstAt(evalLog, <<0, 0, j>>) < FirstAt(evalLog, <<0, 0, i>>)
        /\ \A i \in FirstMissing..Len(CalledParameters) : Count(evalLog, <<0, 0, i>>) = 0
        /\ IF \A i \in EarlierDefaults : ~RaisingDefault(i)
           THEN /\ outcome.err.kind = "TypeError"
                /\ outcome.err.msg =
                       "Missing argument '" \o CalledParameters[FirstMissing].name
                           \o "' for lambda"
           ELSE outcome.err.kind = "NameError"

\* ((a, b = a, c) -> c)(5): the default of b was evaluated, then the call
\* raised the TypeError for c without evaluating the body.
C24_Witness ==
    /\ IsShortRun
    /\ pc = "done"
    /\ fragments[2].lambda = "(a, b = a, c) -> c"
    /\ Supplied = 1
    /\ MissingArgument
    /\ FirstMissing = 3
    /\ Count(evalLog, <<0, 0, 2>>) = 1
    /\ Count(evalLog, <<0, 0, 0>>) = 0
    /\ ~outcome.ok
    /\ outcome.err.kind = "TypeError"
    /\ outcome.err.msg = "Missing argument 'c' for lambda"

-----------------------------------------------------------------------------
(* C25: an object literal with a repeated key.                              *)

IsObjectRun == Len(fragments) = 2 /\ fragments[1] = "object"
FieldCount == Len(fragments[2].keys)

\* The key a field is written with: a name, or a string without its quotes.
KeyOf(i) == IF fragments[2].keys[i] = "'a'" THEN "a" ELSE fragments[2].keys[i]
\* The value the expression of field i has on the payload 4.
ValueOf(i) == CASE i = 1 -> VInt(4) [] i = 2 -> VInt(2) [] i = 3 -> VList(<<VInt(3)>>)

FieldsEvaluate == fragments[2].second # "missing"
RepeatsKey == \E i, j \in 1..FieldCount : i < j /\ KeyOf(i) = KeyOf(j)

IsFirstOccurrence(i) == \A j \in 1..(i - 1) : KeyOf(j) # KeyOf(i)
LastOccurrence(i) ==
    CHOOSE j \in 1..FieldCount :
        KeyOf(j) = KeyOf(i) /\ \A k \in (j + 1)..FieldCount : KeyOf(k) # KeyOf(i)
\* The place of a key in the result: the number of distinct keys up to its
\* first occurrence.
PlaceOf(i) == Cardinality({j \in 1..i : IsFirstOccurrence(j)})
DistinctKeys == {KeyOf(i) : i \in 1..FieldCount}

\* C25: evaluating an object literal in which a key is repeated evaluates
\* every field expression exactly once, left to right; the result holds the
\* key once, at the place of its first occurrence, with the value of its
\* last occurrence, and has as many fields as there are distinct keys.  When
\* a field expression raises, the fields after it are not evaluated.
C25_RepeatedKey ==
    (IsObjectRun /\ pc = "done" /\ script.ok) =>
        /\ Count(evalLog, <<0>>) = 1
        /\ \A i \in 1..FieldCount :
              Count(evalLog, <<0, i>>) = IF FieldsEvaluate \/ i <= 2 THEN 1 ELSE 0
        /\ \A i, j \in 1..FieldCount :
              (i < j /\ (FieldsEvaluate \/ j <= 2)) =>
                  FirstAt(evalLog, <<0, i>>) < FirstAt(evalLog, <<0, j>>)
        /\ IF ~FieldsEvaluate THEN Unbound
           ELSE /\ outcome.ok
                /\ outcome.value.t = "dict"
                /\ Len(outcome.value.v) = Cardinality(DistinctKeys)
                /\ \A i \in 1..FieldCount :
                      IsFirstOccurrence(i) =>
                          outcome.value.v[PlaceOf(i)] =
                              <<KeyOf(i), ValueOf(LastOccurrence(i))>>

\* {a: payload, b: 2, 'a': [3]} evaluated to {a: [3], b: 2}: three fields
\* evaluated, two result fields, a first with the value of its last
\* occurrence.
C25_Witness ==
    /\ IsObjectRun
    /\ pc = "done"
    /\ fragments[2].keys = <<"a", "b", "'a'">>
    /\ FieldsEvaluate
    /\ RepeatsKey
    /\ Count(evalLog, <<0, 3>>) = 1
    /\ outcome.ok
    /\ outcome.value = VDict(<< <<"a", VList(<<VInt(3)>>)>>, <<"b", VInt(2)>> >>)

-----------------------------------------------------------------------------
(* C26: the parser terminates.                                              *)

Parsing == fragments = <<"tokens">>
ParserDone == Parsing /\ pc = "parsed"
EndOfTokens == Len(parser.tokens) - 1

\* The cursor is on a token of the list, never past the EOF token.
CursorWithinTokens == parser.index \in 0..EndOfTokens

\* Every iteration of a loop that came back to the head of the loop consumed
\* at least one token.
LoopsConsume ==
    \A k \in 1..Len(parser.stack) :
        parser.stack[k].head # -1 => parser.stack[k].prev < parser.stack[k].head

\* A lambda detection set the cursor back at most twice, to the opening
\* parenthesis it started on, and the step after the second one consumes the
\* parenthesis.
RollbackAtMostTwice ==
    /\ \A k \in 1..Len(parser.stack) :
          LET frame == parser.stack[k]
          IN /\ frame.restored <= 2
             /\ frame.fn = "_maybe_parse_lambda_expression" =>
                   /\ TokKind(current(parser.tokens, frame.saved)) = "LPAREN"
                   /\ frame.restored = (IF frame.at = "legacy" THEN 1 ELSE 0)
    /\ (parser.signal = "none" /\ parser.stack # <<>>) =>
          LET caller == parser.stack[Len(parser.stack)]
          IN /\ caller.fn = "parse_primary"
             /\ parser.index = caller.saved
             /\ Resume(caller, "none", parser.tokens, parser.index).index = caller.saved + 1

\* The finished parse returned, with the cursor on EOF, or raised ParseError,
\* as parse_expression_eof computed in one piece does from the same tokens.
ReturnedOrParseError ==
    LET whole == parse_expression_eof(parser.tokens)
    IN /\ parser.stack = <<>>
       /\ parser.signal \in {"return", "raise"}
       /\ whole.ok = (parser.signal = "return")
       /\ whole.index = parser.index
       /\ whole.ok => whole.expr # PyNone /\ parser.index = EndOfTokens
       /\ ~whole.ok => whole.err.kind = "ParseError"

C26_Safety ==
    Parsing =>
        /\ CursorWithinTokens
        /\ LoopsConsume
        /\ RollbackAtMostTwice
        /\ (pc = "parsed" => ReturnedOrParseError)

\* C26: on every token list that ends with EOF parse_expression_eof comes to
\* an end, having returned a node or raised ParseError: the cursor never
\* moves past the EOF token, every iteration of a loop consumes at least one
\* token, and a lambda detection sets the cursor back to its opening
\* parenthesis at most twice before the parenthesis is consumed.
C26_ParserTerminates == [](C26_Safety) /\ <>(Parsing => pc = "parsed")

\* ((a) -> a): the legacy form; the detection at the first parenthesis was set
\* back once, and the parse returned on EOF.
C26_Witness ==
    /\ ParserDone
    /\ Len(parser.tokens) = 8
    /\ TokKind(parser.tokens[1]) = "LPAREN"
    /\ TokKind(parser.tokens[2]) = "LPAREN"
    /\ parser.signal = "return"
    /\ parser.index = EndOfTokens
    /\ parser.restores = 1

====
